---- MODULE Spec2Model ----
(***************************************************************************)
(* Google nowcast pipeline: the page classifier of the scrapers            *)
(* (google_crawl_nowcast.py, google_crawl_single_city.py), the temporal    *)
(* normalizer parse_nowcast_data and the batch merger                      *)
(* parse_all_jsons_to_csv (parse_crawl.py).                                *)
(*                                                                         *)
(* Time is counted in seconds since 2026-01-01T00:00:00Z.  Text is a       *)
(* sequence of one-character strings.  A formatted time                    *)
(* ('%Y-%m-%d %H:%M') is a record [e, d, h, m]: e marks the empty string,  *)
(* d is the day number, h the hour and m the minute.                       *)
(***************************************************************************)
EXTENDS Integers, Sequences, FiniteSets, TLC

(***************************************************************************)
(* Bounds of the model.                                                    *)
(***************************************************************************)
MaxRects == 3
MaxItems == 7
MaxFiles == 2

(***************************************************************************)
(* Calendar arithmetic of datetime / timedelta.                            *)
(***************************************************************************)
Minute == 60
Hour == 3600
Day == 86400

At(d, h, m, s) == d * Day + h * Hour + m * Minute + s

MinuteOf(t) == (t % Hour) \div Minute
HourOf(t) == (t % Day) \div Hour
DayOf(t) == t \div Day

\* timedelta(minutes=n), timedelta(hours=n), timedelta(days=n)
Minutes(n) == n * Minute
Hours(n) == n * Hour
Days(n) == n * Day

\* dt.replace(hour=h, minute=m, second=0, microsecond=0)
ReplaceHM(t, h, m) == DayOf(t) * Day + h * Hour + m * Minute

\* dt.replace(minute=0, second=0, microsecond=0)
FloorHour(t) == t - (t % Hour)

\* dt.strftime('%Y-%m-%d %H:%M')
EmptyTime == [e |-> TRUE, d |-> 0, h |-> 0, m |-> 0]
Strftime(t) == [e |-> FALSE, d |-> DayOf(t), h |-> HourOf(t), m |-> MinuteOf(t)]

\* order of two formatted times as strings ('' sorts first)
TimeLeq(a, b) ==
    \/ a.e
    \/ /\ ~b.e
       /\ \/ a.d < b.d
          \/ a.d = b.d /\ a.h < b.h
          \/ a.d = b.d /\ a.h = b.h /\ a.m <= b.m

\* "if dt.minute % 2 == 1: dt = dt - timedelta(minutes=1)"
AlignEven(t) == IF MinuteOf(t) % 2 = 1 THEN t - Minutes(1) ELSE t

(***************************************************************************)
(* Time zones.  A zone of the tz database is its standard offset, its      *)
(* daylight offset and the UTC interval of 2026 in which the daylight      *)
(* offset applies (empty for a zone without daylight saving).              *)
(***************************************************************************)
TzNames == {"UTC", "Asia/Kolkata", "Asia/Kathmandu", "America/New_York"}

TzDb ==
    [n \in TzNames |->
        CASE n = "UTC" -> [std |-> 0, dst |-> 0, from |-> 0, to |-> 0]
          [] n = "Asia/Kolkata" -> [std |-> 330 * Minute, dst |-> 330 * Minute, from |-> 0, to |-> 0]
          [] n = "Asia/Kathmandu" -> [std |-> 345 * Minute, dst |-> 345 * Minute, from |-> 0, to |-> 0]
          [] n = "America/New_York" ->
                [std |-> 0 - 5 * Hour, dst |-> 0 - 4 * Hour,
                 from |-> At(66, 7, 0, 0), to |-> At(304, 6, 0, 0)]]

\* the zone used when no zone is known: strftime of the UTC datetime
NoTz == [known |-> FALSE, std |-> 0, dst |-> 0, from |-> 0, to |-> 0]

\* pytz.timezone(name): raises for a name the database does not hold
PytzTimezone(name) ==
    IF name \in TzNames
    THEN [known |-> TRUE, std |-> TzDb[name].std, dst |-> TzDb[name].dst,
          from |-> TzDb[name].from, to |-> TzDb[name].to]
    ELSE NoTz

\* utcoffset of the zone at the UTC instant t
UtcOffset(tz, t) == IF tz.from <= t /\ t < tz.to THEN tz.dst ELSE tz.std

\* dt.astimezone(local_tz): the local wall-clock reading of the instant t
AsTimezone(tz, t) == t + UtcOffset(tz, t)

(***************************************************************************)
(* Strings: a str is a sequence of one-character strings; a value that     *)
(* may be None or null is a record [null, s].                              *)
(***************************************************************************)
Str(s) == [null |-> FALSE, s |-> s]
None == [null |-> TRUE, s |-> << >>]

\* f"{value}": None is formatted as the text None
Format(v) == IF v.null THEN <<"N", "o", "n", "e">> ELSE v.s

UpperCase == <<"A", "B", "C", "D", "E", "F", "G", "H", "I", "J", "K", "L", "M",
               "N", "O", "P", "Q", "R", "S", "T", "U", "V", "W", "X", "Y", "Z">>
LowerCase == <<"a", "b", "c", "d", "e", "f", "g", "h", "i", "j", "k", "l", "m",
               "n", "o", "p", "q", "r", "s", "t", "u", "v", "w", "x", "y", "z">>

LowerChar(c) ==
    IF \E i \in 1..26 : UpperCase[i] = c
    THEN LowerCase[CHOOSE i \in 1..26 : UpperCase[i] = c]
    ELSE c

\* str.lower()
Lower(s) == [i \in 1..Len(s) |-> LowerChar(s[i])]

\* s[i..] starts with the text k
StartsAt(s, i, k) ==
    /\ i >= 1
    /\ i + Len(k) - 1 <= Len(s)
    /\ \A j \in 1..Len(k) : s[i + j - 1] = k[j]

\* "k in s"
Contains(s, k) == \E i \in 1..(Len(s) + 1) : StartsAt(s, i, k)

\* str.strip() for the blank
RECURSIVE LStrip(_)
LStrip(s) == IF s # << >> /\ Head(s) = " " THEN LStrip(Tail(s)) ELSE s
RECURSIVE RStrip(_)
RStrip(s) ==
    IF s # << >> /\ s[Len(s)] = " " THEN RStrip(SubSeq(s, 1, Len(s) - 1)) ELSE s
Strip(s) == LStrip(RStrip(s))

\* str.split(','): never empty, '' splits to ['']
RECURSIVE SplitFrom(_, _, _)
SplitFrom(s, i, cur) ==
    IF i > Len(s) THEN <<cur>>
    ELSE IF s[i] = "," THEN <<cur>> \o SplitFrom(s, i + 1, << >>)
    ELSE SplitFrom(s, i + 1, Append(cur, s[i]))
Split(s) == SplitFrom(s, 1, << >>)

Digits == <<"0", "1", "2", "3", "4", "5", "6", "7", "8", "9">>
IsDigit(c) == \E i \in 1..10 : Digits[i] = c
DigitVal(c) == (CHOOSE i \in 1..10 : Digits[i] = c) - 1

\* precip_keywords
precip_keywords ==
    << <<"r", "a", "i", "n">>,
       <<"s", "h", "o", "w", "e", "r">>,
       <<"t", "h", "u", "n", "d", "e", "r", "s", "t", "o", "r", "m">>,
       <<"d", "r", "i", "z", "z", "l", "e">>,
       <<"p", "r", "e", "c", "i", "p", "i", "t", "a", "t", "i", "o", "n">>,
       <<"w", "e", "t">>,
       <<"s", "l", "e", "e", "t">>,
       <<"s", "n", "o", "w">> >>

\* any(keyword in text for keyword in precip_keywords)
HasKeyword(text) == \E i \in 1..Len(precip_keywords) : Contains(text, precip_keywords[i])

(***************************************************************************)
(* float(height_str) > 0.  ok is FALSE where float() raises (None, '',     *)
(* text that is no number); pos tells whether the number is above zero.    *)
(* Numbers read: an optional sign, digits, an optional fraction.           *)
(***************************************************************************)
AnyNonZero(s) == \E i \in 1..Len(s) : IsDigit(s[i]) /\ DigitVal(s[i]) > 0

\* the number with integer part ip and fraction fp
Number(neg, ip, fp) ==
    IF /\ ip \o fp # << >>
       /\ \A i \in 1..Len(ip) : IsDigit(ip[i])
       /\ \A i \in 1..Len(fp) : IsDigit(fp[i])
    THEN [ok |-> TRUE, pos |-> ~neg /\ AnyNonZero(ip \o fp)]
    ELSE [ok |-> FALSE, pos |-> FALSE]

\* the unsigned text body, dot the places of its decimal points
Unsigned(neg, body, dot) ==
    IF dot = {} THEN Number(neg, body, << >>)
    ELSE IF Cardinality(dot) > 1 THEN [ok |-> FALSE, pos |-> FALSE]
    ELSE \* the one place in dot
         Number(neg, SubSeq(body, 1, (CHOOSE i \in dot : TRUE) - 1),
                SubSeq(body, (CHOOSE i \in dot : TRUE) + 1, Len(body)))

Signed(neg, body) == Unsigned(neg, body, {i \in 1..Len(body) : body[i] = "."})

Float(v) ==
    IF v.null \/ v.s = << >> THEN [ok |-> FALSE, pos |-> FALSE]
    ELSE IF Head(v.s) \in {"-", "+"} THEN Signed(Head(v.s) = "-", Tail(v.s))
    ELSE Signed(FALSE, v.s)

(***************************************************************************)
(* time_range_pattern, matched as re.finditer(..., re.IGNORECASE) does:    *)
(*   from\s+(\d{1,2}):(\d{2})\s*(AM|PM)                                    *)
(*     (?:\s+(?:to|continuing beyond)\s+(\d{1,2}):(\d{2})\s*(AM|PM))?      *)
(***************************************************************************)
ChAt(s, i) == IF i >= 1 /\ i <= Len(s) THEN s[i] ELSE "$"

\* first index at or after i that holds no blank (\s*)
RECURSIVE SkipSpace(_, _)
SkipSpace(s, i) == IF ChAt(s, i) = " " THEN SkipSpace(s, i + 1) ELSE i

NoClock == [ok |-> FALSE, h |-> 0, m |-> 0, pm |-> FALSE, next |-> 0]

\* the clock whose hour starts at i, whose colon is at c and whose AM/PM
\* would start at a
ClockAt(s, i, c, a) ==
    IF ~(IsDigit(ChAt(s, c + 1)) /\ IsDigit(ChAt(s, c + 2))) THEN NoClock
    ELSE IF ~(ChAt(s, a) \in {"a", "p"} /\ ChAt(s, a + 1) = "m") THEN NoClock
    ELSE [ok |-> TRUE,
          h |-> IF c = i + 2 THEN 10 * DigitVal(s[i]) + DigitVal(s[i + 1])
                ELSE DigitVal(s[i]),
          m |-> 10 * DigitVal(s[c + 1]) + DigitVal(s[c + 2]),
          pm |-> s[a] = "p", next |-> a + 2]

\* (\d{1,2}):(\d{2})\s*(AM|PM) at index i of the lower-cased text
MatchClock(s, i) ==
    IF IsDigit(ChAt(s, i)) /\ IsDigit(ChAt(s, i + 1)) /\ ChAt(s, i + 2) = ":"
    THEN ClockAt(s, i, i + 2, SkipSpace(s, i + 5))
    ELSE IF IsDigit(ChAt(s, i)) /\ ChAt(s, i + 1) = ":"
    THEN ClockAt(s, i, i + 1, SkipSpace(s, i + 4))
    ELSE NoClock

kw_from == <<"f", "r", "o", "m">>
kw_to == <<"t", "o">>
kw_beyond == <<"c", "o", "n", "t", "i", "n", "u", "i", "n", "g", " ",
               "b", "e", "y", "o", "n", "d">>

NoMatch == [ok |-> FALSE, sh |-> 0, sm |-> 0, spm |-> FALSE,
            hasEnd |-> FALSE, eh |-> 0, em |-> 0, epm |-> FALSE, next |-> 0]

\* \s+ clock at index k, the end of "to" or "continuing beyond"
TailClock(s, k, l) == IF l = k THEN NoClock ELSE MatchClock(s, l)

\* (?:to|continuing beyond)\s+ clock at index j
TailWord(s, j) ==
    IF StartsAt(s, j, kw_to)
    THEN TailClock(s, j + Len(kw_to), SkipSpace(s, j + Len(kw_to)))
    ELSE IF StartsAt(s, j, kw_beyond)
    THEN TailClock(s, j + Len(kw_beyond), SkipSpace(s, j + Len(kw_beyond)))
    ELSE NoClock

\* the optional group at index i: its leading \s+ ends before j
MatchTail(s, i, j) == IF j = i THEN NoClock ELSE TailWord(s, j)

\* the match made of the start clock st and the optional end clock en
Match(st, en) ==
    [ok |-> TRUE, sh |-> st.h, sm |-> st.m, spm |-> st.pm,
     hasEnd |-> en.ok, eh |-> en.h, em |-> en.m, epm |-> en.pm,
     next |-> IF en.ok THEN en.next ELSE st.next]

MatchFrom(s, st) ==
    IF ~st.ok THEN NoMatch
    ELSE Match(st, MatchTail(s, st.next, SkipSpace(s, st.next)))

\* "from" at index i, its trailing \s+ ends before j
MatchSpace(s, i, j) ==
    IF j = i + Len(kw_from) THEN NoMatch ELSE MatchFrom(s, MatchClock(s, j))

\* one match of the pattern that starts exactly at index i
MatchAt(s, i) ==
    IF ~StartsAt(s, i, kw_from) THEN NoMatch
    ELSE MatchSpace(s, i, SkipSpace(s, i + Len(kw_from)))

\* re.finditer: the non-overlapping matches, leftmost first
RECURSIVE FindFrom(_, _)
FindNext(s, i, mt) ==
    IF mt.ok THEN <<mt>> \o FindFrom(s, mt.next) ELSE FindFrom(s, i + 1)

FindFrom(s, i) == IF i > Len(s) THEN << >> ELSE FindNext(s, i, MatchAt(s, i))

FindIter(text) == FindFrom(Lower(text), 1)

(***************************************************************************)
(* parse_nowcast_data(json_file, tz_map).                                  *)
(*                                                                         *)
(* A file is [corrupt, data]; data is the JSON object:                     *)
(*   city_id, type ("null" for JSON null), scrape_time [ok, t] (ok is      *)
(*   FALSE for a missing or unparseable value), points (records            *)
(*   [minute_index, time, height]), fallback_data [present, div1_text,     *)
(*   div2_text], hourly_data (texts; empty when absent), message (the      *)
(*   no-data sentinel is present).                                         *)
(* The result is [raised, recs]: raised when the call ends in an           *)
(* exception, recs the returned list otherwise.                            *)
(***************************************************************************)
Raise == [raised |-> TRUE, recs |-> << >>]
Return(recs) == [raised |-> FALSE, recs |-> recs]

Record(city_id, type, scrape_time, valid_time, leadtime, precip) ==
    [city_id |-> city_id, type |-> type, scrape_time |-> scrape_time,
     valid_time |-> valid_time, leadtime |-> leadtime, precip |-> precip]

\* a station without a row read in a default zone
LocalTzDefault(city_id, tzs) ==
    IF city_id \in DOMAIN tzs THEN PytzTimezone(tzs[city_id])
    ELSE PytzTimezone("Asia/Kolkata")

\* lines 38-44: the zone of the station, NoTz when unknown
LocalTz(city_id, tzs) ==
    IF city_id \in DOMAIN tzs THEN PytzTimezone(tzs[city_id]) ELSE NoTz

\* lines 46-58: scrape_time_formatted
ScrapeTimeFormatted(scrape_time, local_tz) ==
    IF ~scrape_time.ok THEN EmptyTime
    ELSE IF local_tz.known THEN Strftime(AsTimezone(local_tz, scrape_time.t))
    ELSE Strftime(scrape_time.t)

\* a lead time that is the index itself
BarLeadtimeIndex(minute_index) == minute_index

\* line 67
BarLeadtime(minute_index) == minute_index * 2

\* lines 70-83: valid_time of one point
BarLocal(valid_dt, local_tz) ==
    IF local_tz.known THEN Strftime(AsTimezone(local_tz, valid_dt))
    ELSE Strftime(valid_dt)

\* a valid_time without the fallback to the point's own time
BarValidTimeNoFallback(scrape_time, local_tz, point) ==
    IF scrape_time.ok
    THEN BarLocal(AlignEven(scrape_time.t + Minutes(point.minute_index * 2)), local_tz)
    ELSE EmptyTime

BarValidTime(scrape_time, local_tz, point) ==
    IF scrape_time.ok
    THEN BarLocal(AlignEven(scrape_time.t + Minutes(BarLeadtime(point.minute_index))),
                  local_tz)
    ELSE point.time

\* a flag raised by every height that is a number
BarPrecipParses(height) == IF Float(height).ok THEN 1 ELSE 0

\* lines 85-91
BarPrecip(height) == IF Float(height).pos THEN 1 ELSE 0

\* lines 64-101
ParseBarChart(data, local_tz) ==
    [i \in 1..Len(data.points) |->
        Record(data.city_id, "nowcast",
               ScrapeTimeFormatted(data.scrape_time, local_tz),
               BarValidTime(data.scrape_time, local_tz, data.points[i]),
               BarLeadtime(data.points[i].minute_index),
               BarPrecip(data.points[i].height))]

\* lines 131-139: 12 AM/PM handling
To24(h, pm) ==
    IF pm /\ h # 12 THEN h + 12
    ELSE IF ~pm /\ h = 12 THEN 0
    ELSE h

\* datetime.replace raises ValueError outside 0..23 / 0..59
ValidHM(h, m) == h \in 0..23 /\ m \in 0..59

\* an end that is not compared with the start
RollEndStartNever(end, start) == end

\* a start that is left on the date of the scrape
RollStartNever(start, scrape) == start

\* lines 152-157 and 169-174: the three day-rollover steps
RollStart(start, scrape) == IF start < scrape THEN start + Days(1) ELSE start
RollEndScrape(end, scrape) == IF end < scrape THEN end + Days(1) ELSE end
RollEndStart(end, start) == IF end < start THEN end + Days(1) ELSE end

\* an open range that ends where it starts
OpenEndAtStart(start) == start

\* line 148 / 166
OpenEnd(start) == start + Hours(6)

\* lines 152-160 and 169-176: the rollovers of start0 and end0, read in the
\* zone of the computation, and the conversion back to UTC
Rolled(start1, end0, anchor, off) ==
    [start |-> start1 - off,
     end |-> RollEndStart(RollEndScrape(end0, anchor), start1) - off]

\* lines 146-150 and 164-168: the end before the rollovers
End0(mt, anchor, start0) ==
    IF mt.hasEnd THEN ReplaceHM(anchor, To24(mt.eh, mt.epm), mt.em) ELSE OpenEnd(start0)

\* lines 144 and 162
Start0(mt, anchor) == ReplaceHM(anchor, To24(mt.sh, mt.spm), mt.sm)

PeriodFrom(mt, anchor, off, start0) ==
    Rolled(RollStart(start0, anchor), End0(mt, anchor, start0), anchor, off)

\* anchor is the scrape instant as read in the zone of the computation
\* (scrape_local, or scrape_dt when no zone is known); off its UTC offset
PeriodAt(mt, scrape, off) == PeriodFrom(mt, scrape + off, off, Start0(mt, scrape + off))

\* lines 141-176 for one match: the period (start_dt, end_dt) in UTC
Period(mt, scrape, local_tz) ==
    PeriodAt(mt, scrape, IF local_tz.known THEN UtcOffset(local_tz, scrape) ELSE 0)

PeriodRaises(mt) ==
    \/ ~ValidHM(To24(mt.sh, mt.spm), mt.sm)
    \/ mt.hasEnd /\ ~ValidHM(To24(mt.eh, mt.epm), mt.em)

\* line 179: max(p[1] for p in precip_periods)
MaxEnd(periods) ==
    CHOOSE e \in {periods[i].end : i \in 1..Len(periods)} :
        \A i \in 1..Len(periods) : periods[i].end <= e

\* the number of turns of a loop that stops before max_end
StepsExclusive(scrape, max_end) ==
    IF scrape < max_end THEN (max_end - scrape + Minutes(2) - 1) \div Minutes(2) ELSE 0

\* line 181: the number of turns of "while current_dt <= max_end"
Steps(scrape, max_end) ==
    IF scrape <= max_end THEN (max_end - scrape) \div Minutes(2) + 1 ELSE 0

\* a window that is open at its start
InPeriodOpen(periods, current_dt) ==
    IF \E i \in 1..Len(periods) :
           periods[i].start < current_dt /\ current_dt <= periods[i].end
    THEN 1 ELSE 0

\* lines 183-187
InPeriod(periods, current_dt) ==
    IF \E i \in 1..Len(periods) :
           periods[i].start <= current_dt /\ current_dt <= periods[i].end
    THEN 1 ELSE 0

\* lines 189-199
TextValidTime(current_dt, local_tz) ==
    IF local_tz.known THEN Strftime(AlignEven(AsTimezone(local_tz, current_dt)))
    ELSE Strftime(AlignEven(current_dt))

\* a lead time counted in turns of the loop
TextLeadtimeTurns(current_dt, scrape) == (current_dt - scrape) \div Minutes(2)

\* line 182
TextLeadtime(current_dt, scrape) == (current_dt - scrape) \div Minute

\* lines 182-209: the record of the turn at current_dt
SeriesRecord(data, local_tz, periods, current_dt) ==
    Record(data.city_id, "nowcast",
           ScrapeTimeFormatted(data.scrape_time, local_tz),
           TextValidTime(current_dt, local_tz),
           TextLeadtime(current_dt, data.scrape_time.t),
           InPeriod(periods, current_dt))

\* lines 178-211: the dense series
DenseSeries(data, local_tz, periods) ==
    [k \in 1..Steps(data.scrape_time.t, MaxEnd(periods)) |->
        SeriesRecord(data, local_tz, periods,
                     data.scrape_time.t + (k - 1) * Minutes(2))]

\* lines 212-222
DegradedPoint(data, local_tz) ==
    << Record(data.city_id, "nowcast",
              ScrapeTimeFormatted(data.scrape_time, local_tz),
              ScrapeTimeFormatted(data.scrape_time, local_tz), 0, 1) >>

\* line 108
CombinedText(fallback) ==
    Lower(Format(fallback.div1_text) \o <<" ">> \o Format(fallback.div2_text))

\* lines 119-176: precip_periods
PrecipPeriods(ranges, scrape, local_tz) ==
    [i \in 1..Len(ranges) |-> Period(ranges[i], scrape, local_tz)]

\* the ranges whose clock times datetime.replace takes
GoodRange(mt) == ~PeriodRaises(mt)

\* a scan that passes over the ranges it cannot place
ParseRangesSkipBad(data, local_tz, ranges) ==
    IF SelectSeq(ranges, GoodRange) # << >>
    THEN Return(DenseSeries(data, local_tz,
                            PrecipPeriods(SelectSeq(ranges, GoodRange),
                                          data.scrape_time.t, local_tz)))
    ELSE Return(DegradedPoint(data, local_tz))

\* lines 119-222
ParseRanges(data, local_tz, ranges) ==
    IF \E i \in 1..Len(ranges) : PeriodRaises(ranges[i]) THEN Raise
    ELSE IF ranges # << >>
    THEN Return(DenseSeries(data, local_tz,
                            PrecipPeriods(ranges, data.scrape_time.t, local_tz)))
    ELSE Return(DegradedPoint(data, local_tz))

\* a branch that scans the long block without looking for a keyword
ParseFreeTextUnhinted(data, local_tz) ==
    IF ~data.scrape_time.ok THEN Return(<< >>)
    ELSE IF data.fallback_data.div2_text.null THEN Raise
    ELSE ParseRanges(data, local_tz, FindIter(data.fallback_data.div2_text.s))

\* lines 104-222
ParseFreeText(data, local_tz) ==
    IF ~(HasKeyword(CombinedText(data.fallback_data)) /\ data.scrape_time.ok)
    THEN Return(<< >>)
    ELSE IF data.fallback_data.div2_text.null
    THEN Raise  \* re.finditer(pattern, None): TypeError
    ELSE ParseRanges(data, local_tz, FindIter(data.fallback_data.div2_text.s))

\* line 235
Part2(parts) == IF Len(parts) > 2 THEN Strip(parts[3]) ELSE << >>

\* a description that is the whole label
WeatherDescWhole(hourly_str) == hourly_str

WeatherDesc(hourly_str) == Part2(Split(hourly_str))

\* a lead time converted to minutes
HourlyLeadtimeMinutes(idx) == idx * 60

\* line 240 and line 269: the lead time is kept in hours
HourlyLeadtime(idx) == idx

\* lines 244-257
HourlyLocal(valid_dt, local_tz) ==
    IF local_tz.known THEN Strftime(FloorHour(AsTimezone(local_tz, valid_dt)))
    ELSE Strftime(valid_dt)

HourlyValidTime(scrape_time, local_tz, i) ==
    IF scrape_time.ok
    THEN HourlyLocal(FloorHour(scrape_time.t + Hours(HourlyLeadtime(i))), local_tz)
    ELSE EmptyTime

\* lines 260-261
HourlyPrecip(hourly_str) ==
    IF HasKeyword(Lower(WeatherDesc(hourly_str))) THEN 1 ELSE 0

\* lines 229-271: enumerate() counts from 0
ParseHourly(data, local_tz) ==
    [i \in 1..Len(data.hourly_data) |->
        Record(data.city_id, "hourly",
               ScrapeTimeFormatted(data.scrape_time, local_tz),
               HourlyValidTime(data.scrape_time, local_tz, i - 1),
               HourlyLeadtime(i - 1),
               HourlyPrecip(data.hourly_data[i]))]

\* a dispatch on the data alone, the type left aside
ParseDataUntyped(data, local_tz) ==
    IF data.points # << >> THEN Return(ParseBarChart(data, local_tz))
    ELSE IF data.fallback_data.present THEN ParseFreeText(data, local_tz)
    ELSE IF data.hourly_data # << >> THEN Return(ParseHourly(data, local_tz))
    ELSE Return(<< >>)

\* lines 32-278 for the loaded JSON object and the zone of its station
ParseData(data, local_tz) ==
    IF data.type = "null" THEN Return(<< >>)
    ELSE IF data.type = "nowcast" /\ data.points # << >>
    THEN Return(ParseBarChart(data, local_tz))
    ELSE IF data.type = "nowcast" /\ data.fallback_data.present
    THEN ParseFreeText(data, local_tz)
    ELSE IF data.type = "hourly" /\ data.hourly_data # << >>
    THEN Return(ParseHourly(data, local_tz))
    ELSE Return(<< >>)

parse_nowcast_data(f, tzs) ==
    IF f.corrupt THEN Raise  \* json.load raises
    ELSE ParseData(f.data, LocalTz(f.data.city_id, tzs))

(***************************************************************************)
(* Texts of the pages and artifacts the model is run on.                   *)
(***************************************************************************)
\* a short label
txt_rain ==
    <<"R", "a", "i", "n">>
txt_cloudy ==
    <<"C", "l", "o", "u", "d", "y">>
\* the example of the documentation
txt_range ==
    <<"r", "a", "i", "n", " ", "l", "i", "k", "e", "l", "y", " ", "f", "r",
      "o", "m", " ", "7", ":", "0", "0", " ", "A", "M", " ", "t", "o", " ",
      "9", ":", "3", "0", " ", "A", "M">>
txt_beyond ==
    <<"R", "a", "i", "n", " ", "f", "r", "o", "m", " ", "1", "0", ":", "4",
      "8", " ", "A", "M", " ", "c", "o", "n", "t", "i", "n", "u", "i", "n",
      "g", " ", "b", "e", "y", "o", "n", "d", " ", "2", ":", "0", "0", " ",
      "P", "M">>
\* a range without an end clock time
txt_open ==
    <<"S", "h", "o", "w", "e", "r", "s", " ", "f", "r", "o", "m", " ", "1",
      "1", ":", "0", "0", " ", "P", "M", " ", "c", "o", "n", "t", "i", "n",
      "u", "i", "n", "g", " ", "b", "e", "y", "o", "n", "d">>
txt_midnight ==
    <<"D", "r", "i", "z", "z", "l", "e", " ", "f", "r", "o", "m", " ", "1",
      "1", ":", "3", "0", " ", "P", "M", " ", "t", "o", " ", "1", "2", ":",
      "1", "5", " ", "A", "M">>
\* two ranges
txt_two ==
    <<"R", "a", "i", "n", " ", "f", "r", "o", "m", " ", "1", ":", "0", "0",
      " ", "P", "M", " ", "t", "o", " ", "1", ":", "2", "0", " ", "P", "M",
      " ", "a", "n", "d", " ", "f", "r", "o", "m", " ", "1", "2", ":", "1",
      "0", " ", "P", "M", " ", "t", "o", " ", "1", "2", ":", "3", "0", " ",
      "P", "M">>
\* a keyword and no range
txt_soon ==
    <<"L", "i", "g", "h", "t", " ", "r", "a", "i", "n", " ", "e", "x", "p",
      "e", "c", "t", "e", "d", " ", "s", "o", "o", "n">>
\* a range and no keyword
txt_hail ==
    <<"H", "a", "i", "l", " ", "f", "r", "o", "m", " ", "7", ":", "0", "0",
      " ", "A", "M", " ", "t", "o", " ", "9", ":", "3", "0", " ", "A", "M">>
\* an hour datetime.replace rejects
txt_badhour ==
    <<"R", "a", "i", "n", " ", "f", "r", "o", "m", " ", "1", "3", ":", "0",
      "0", " ", "P", "M", " ", "t", "o", " ", "2", ":", "0", "0", " ", "P",
      "M">>
\* a minute datetime.replace rejects
txt_badminute ==
    <<"R", "a", "i", "n", " ", "f", "r", "o", "m", " ", "7", ":", "7", "5",
      " ", "A", "M", " ", "t", "o", " ", "9", ":", "3", "0", " ", "A", "M">>
\* a range that parses, then one that does not
txt_thenbad ==
    <<"R", "a", "i", "n", " ", "f", "r", "o", "m", " ", "1", ":", "0", "0",
      " ", "P", "M", " ", "t", "o", " ", "1", ":", "2", "0", " ", "P", "M",
      " ", "a", "n", "d", " ", "f", "r", "o", "m", " ", "2", ":", "0", "0",
      " ", "P", "M", " ", "t", "o", " ", "2", ":", "6", "1", " ", "P", "M">>
\* an end clock time earlier than the start clock time
txt_wrap ==
    <<"S", "n", "o", "w", " ", "f", "r", "o", "m", " ", "9", ":", "0", "0",
      " ", "A", "M", " ", "t", "o", " ", "7", ":", "0", "0", " ", "A", "M">>
\* a start clock time only, early in the day
txt_early ==
    <<"R", "a", "i", "n", " ", "f", "r", "o", "m", " ", "1", ":", "0", "0",
      " ", "a", "m">>
\* hourly labels
lbl_now_rain ==
    <<"N", "o", "w", ",", "6", "4", "F", ",", "L", "i", "g", "h", "t", " ",
      "R", "a", "i", "n">>
lbl_cloudy ==
    <<"6", " ", "P", "M", ",", "6", "3", "F", ",", "C", "l", "o", "u", "d",
      "y">>
lbl_showers ==
    <<"7", " ", "P", "M", ",", "6", "1", "F", ",", " ", "S", "h", "o", "w",
      "e", "r", "s">>
lbl_short ==
    <<"8", " ", "P", "M">>
\* a keyword in the fourth field only
lbl_fourth ==
    <<"9", " ", "P", "M", ",", "6", "0", "F", ",", "C", "l", "e", "a", "r",
      ",", "R", "a", "i", "n", " ", "2", "0", "%">>
lbl_sleet ==
    <<"1", "0", " ", "P", "M", ",", "5", "8", "F", ",", "S", "L", "E", "E",
      "T">>

(***************************************************************************)
(* The scrapers.  A page is what the probes of the scraper see:            *)
(*   robot      the robot-challenge text is on the page                    *)
(*   rects      the height attributes of the rects of the target SVG       *)
(*              (empty: no SVG with rects has the 1440x48 viewBox)         *)
(*   container  the fallback div is on the page                            *)
(*   div1, div2 the trimmed text of its two blocks, None for a block       *)
(*              that is not there                                          *)
(*   hourly     the hourly container is on the page                        *)
(*   items      the aria-label of each of its labelled list items          *)
(* The result of a scrape is [ret, saved, data]: ret is "out" when the     *)
(* function returns the dict and "None" when it ends in the except clause, *)
(* saved tells whether the dict was written as a JSON artifact.            *)
(***************************************************************************)
NoFallback == [present |-> FALSE, div1_text |-> None, div2_text |-> None]

\* the dict out as built before the page is opened
NewOut(city_id, t) ==
    [city_id |-> city_id, scrape_time |-> [ok |-> TRUE, t |-> t], type |-> "null",
     points |-> << >>, fallback_data |-> NoFallback, hourly_data |-> << >>,
     message |-> FALSE]

\* js: found iff a target SVG exists; only SVGs with rects are candidates
ChartFound(pg) == pg.rects # << >>

\* fallback_js
FallbackFound(pg) == pg.container /\ ~(pg.div1.null /\ pg.div2.null)

\* hourly_js: the labels of the first six items, empty labels dropped
HourlyCap == 6
HasLabel(l) == l # << >>
\* the labels of all the items, empty labels dropped
HourlyLabelsUncapped(pg) == SelectSeq(pg.items, HasLabel)

HourlyLabels(pg) ==
    SelectSeq(SubSeq(pg.items, 1, IF Len(pg.items) < HourlyCap THEN Len(pg.items)
                                  ELSE HourlyCap),
              HasLabel)

HourlyFound(pg) == pg.hourly /\ pg.items # << >> /\ HourlyLabels(pg) # << >>

\* points stamped from the scrape time as it is read
PointsUnaligned(rects, t) ==
    [i \in 1..Len(rects) |->
        [minute_index |-> i - 1,
         time |-> Strftime(t + Minutes((i - 1) * 2)),
         height |-> Str(rects[i])]]

\* the loop over rows that fills out["points"]
Points(rects, t) ==
    [i \in 1..Len(rects) |->
        [minute_index |-> i - 1,
         time |-> Strftime(AlignEven(t) + Minutes((i - 1) * 2)),
         height |-> Str(rects[i])]]

\* "Fallback OK" progress lines of scrape_nowcast_svg:
\* .get('div1_text', 'N/A')[:50] subscripts None when a block is missing
PrintRaises(pg) == pg.div1.null \/ pg.div2.null

\* the probes in the order the scraper runs them; out is the dict so far
Probe(pg, out, prints) ==
    IF pg.robot
    THEN [ret |-> "out", saved |-> TRUE, data |-> [out EXCEPT !.type = "robot"]]
    ELSE IF ChartFound(pg)
    THEN [ret |-> "out", saved |-> TRUE,
          data |-> [out EXCEPT !.type = "nowcast",
                               !.points = Points(pg.rects, out.scrape_time.t)]]
    ELSE IF FallbackFound(pg)
    THEN IF prints /\ PrintRaises(pg)
         THEN [ret |-> "None", saved |-> FALSE, data |-> out]
         ELSE [ret |-> "out", saved |-> TRUE,
               data |-> [out EXCEPT !.type = "nowcast",
                                    !.fallback_data = [present |-> TRUE,
                                                       div1_text |-> pg.div1,
                                                       div2_text |-> pg.div2]]]
    ELSE IF HourlyFound(pg)
    THEN [ret |-> "out", saved |-> TRUE,
          data |-> [out EXCEPT !.type = "hourly", !.hourly_data = HourlyLabels(pg)]]
    ELSE [ret |-> "out", saved |-> TRUE, data |-> [out EXCEPT !.message = TRUE]]

Scrape(pg, city_id, t, prints) == Probe(pg, NewOut(city_id, t), prints)

\* google_crawl_nowcast.py
scrape_nowcast_svg(pg, city_id, t) == Scrape(pg, city_id, t, TRUE)

\* google_crawl_single_city.py
scrape_nowcast_single_city(pg, city_id, t) == Scrape(pg, city_id, t, FALSE)

(***************************************************************************)
(* parse_all_jsons_to_csv(input_dir, output_file).  The directory is a     *)
(* function from file names to files; a name is a number that stands for   *)
(* its place in the order of the file names.                               *)
(***************************************************************************)
\* sorted(input_path.glob('nowcast_*.json'))
RECURSIVE Sorted(_)
\* the name that sorts last
Greatest(names) == CHOOSE n \in names : \A o \in names : o <= n

Least(names) == CHOOSE n \in names : \A o \in names : n <= o
Sorted(names) ==
    IF names = {} THEN << >>
    ELSE <<Least(names)>> \o Sorted(names \ {Least(names)})

NoCsv == [written |-> 0, rows |-> << >>]

(***************************************************************************)
(* Inputs.                                                                 *)
(***************************************************************************)
HeightSamples ==
    << <<"1", "2", ".", "5">>, <<"0">>, << >>, <<"a", "u", "t", "o">> >>

Rects(n) == [i \in 1..n |-> HeightSamples[((i - 1) % Len(HeightSamples)) + 1]]

LabelSamples ==
    <<lbl_now_rain, lbl_cloudy, lbl_showers, lbl_short, lbl_fourth, lbl_sleet>>

Items(n) == [i \in 1..n |-> LabelSamples[((i - 1) % Len(LabelSamples)) + 1]]

\* as Items(n), the items before position k without a label text
ItemsBlank(n, k) == [i \in 1..n |-> IF i < k THEN << >> ELSE Items(n)[i]]

Stations == {"KBUR", "VNKT"}

\* readings of datetime.now(timezone.utc): 2026-01-06 12:00:00, 12:01:30,
\* 07:00:00, 07:00:30, 23:59:10 and 2026-11-01 05:57:00 (3 minutes before
\* New York leaves daylight saving time)
Clock ==
    {At(5, 12, 0, 0), At(5, 12, 1, 30), At(5, 7, 0, 0), At(5, 7, 0, 30),
     At(5, 23, 59, 10), At(304, 5, 57, 0)}

Pages ==
    [robot : BOOLEAN,
     rects : {Rects(n) : n \in 0..MaxRects},
     container : BOOLEAN,
     div1 : {None, Str(txt_rain)},
     div2 : {None, Str(txt_range)},
     hourly : BOOLEAN,
     items : {Items(n) : n \in 0..MaxItems}
             \cup UNION {{ItemsBlank(n, k) : k \in {2, MaxItems, n + 1}} :
                            n \in 1..MaxItems}]

\* the station list: no row, a row for each zone, a row with a bad tz value
TzMaps ==
    {<< >>} \cup {[c \in Stations |-> n] : n \in TzNames \cup {"Mars/Phobos"}}

BlankPage ==
    [robot |-> FALSE, rects |-> << >>, container |-> FALSE, div1 |-> None,
     div2 |-> None, hourly |-> FALSE, items |-> << >>]

JsonFile(data) == [corrupt |-> FALSE, data |-> data]
CorruptFile == [corrupt |-> TRUE, data |-> NewOut("KBUR", 0)]

\* the artifact a scraper writes for a page
Artifact(pg, t) == JsonFile(scrape_nowcast_single_city(pg, "KBUR", t).data)

\* an artifact whose scrape_time is missing or cannot be parsed
NoScrapeTime(f) == [f EXCEPT !.data.scrape_time = [ok |-> FALSE, t |-> 0]]

\* an artifact whose points carry other indexes than 0, 1, 2, ...
Reindexed(f) ==
    [f EXCEPT !.data.points =
        [i \in 1..Len(f.data.points) |->
            [f.data.points[i] EXCEPT !.minute_index = 3 * i + 1]]]

\* heights an artifact may carry: null, numbers of either sign, other text
HeightValues ==
    <<None, Str(<<"a", "u", "t", "o">>), Str(<<"0", ".", "0">>), Str(<<"-", "3">>),
      Str(<<"0", ".", "2", "5">>), Str(<<"+", "7">>)>>

\* an artifact whose points carry the heights of HeightValues from place k on
Reheighted(f, k) ==
    [f EXCEPT !.data.points =
        [i \in 1..Len(f.data.points) |->
            [f.data.points[i] EXCEPT
                !.height = HeightValues[((i + k - 2) % Len(HeightValues)) + 1]]]]

\* an artifact without data, of a given type, with or without the sentinel
Bare(type, message) ==
    JsonFile([NewOut("KBUR", At(5, 12, 0, 0)) EXCEPT !.type = type, !.message = message])

\* an artifact whose type is replaced
Retyped(f, type) == [f EXCEPT !.data.type = type]

Div1Texts == {None, Str(txt_rain), Str(txt_cloudy)}
Div2Texts ==
    {None, Str(<< >>), Str(txt_range), Str(txt_beyond), Str(txt_open),
     Str(txt_midnight), Str(txt_two), Str(txt_wrap), Str(txt_soon), Str(txt_hail),
     Str(txt_badhour), Str(txt_early)}

ChartPages == {[BlankPage EXCEPT !.rects = Rects(n)] : n \in 1..MaxRects}
TextPages ==
    {[BlankPage EXCEPT !.container = TRUE, !.div1 = a, !.div2 = b] :
        a \in Div1Texts, b \in Div2Texts} \ {[BlankPage EXCEPT !.container = TRUE]}
HourlyPages == {[BlankPage EXCEPT !.hourly = TRUE, !.items = Items(n)] : n \in {1, 4, 6}}
OtherPages == {BlankPage, [BlankPage EXCEPT !.robot = TRUE]}

Scraped(t) == {Artifact(pg, t) : pg \in ChartPages \cup TextPages \cup HourlyPages \cup OtherPages}

\* the files parse_nowcast_data is run on
Files ==
    UNION {Scraped(t) : t \in Clock}
    \cup {NoScrapeTime(f) : f \in Scraped(0)}
    \cup {Reindexed(Artifact(pg, t)) : pg \in ChartPages, t \in Clock}
    \cup {Reheighted(Artifact(pg, At(5, 12, 1, 30)), k) :
              pg \in ChartPages, k \in 1..Len(HeightValues)}
    \cup {Bare(type, message) :
              type \in {"null", "robot", "nowcast", "hourly"}, message \in BOOLEAN}
    \cup {Retyped(f, type) : f \in Scraped(At(5, 12, 0, 0)), type \in {"null", "robot"}}
    \cup {CorruptFile}

\* the files of the directories the merger is run on
MergeFiles ==
    {Artifact([BlankPage EXCEPT !.rects = Rects(2)], At(5, 12, 1, 30)),
     Artifact([BlankPage EXCEPT !.hourly = TRUE, !.items = Items(2)], At(5, 12, 0, 0)),
     Artifact([BlankPage EXCEPT !.container = TRUE, !.div1 = Str(txt_rain),
                                !.div2 = Str(txt_soon)], At(5, 7, 0, 0)),
     Artifact([BlankPage EXCEPT !.container = TRUE, !.div1 = Str(txt_rain)], At(5, 7, 0, 0)),
     NoScrapeTime(Artifact([BlankPage EXCEPT !.rects = Rects(1)], 0)),
     Artifact(BlankPage, At(5, 12, 0, 0)),
     Artifact([BlankPage EXCEPT !.container = TRUE, !.div2 = Str(txt_badhour)],
              At(5, 12, 0, 0)),
     Artifact([BlankPage EXCEPT !.container = TRUE, !.div2 = Str(txt_badminute)],
              At(5, 12, 0, 0)),
     Artifact([BlankPage EXCEPT !.container = TRUE, !.div1 = Str(txt_rain),
                                !.div2 = Str(txt_thenbad)], At(5, 12, 0, 0)),
     CorruptFile}

Dirs == UNION {[names -> MergeFiles] : names \in SUBSET (1..MaxFiles)}

(***************************************************************************)
(* State.                                                                  *)
(***************************************************************************)
VARIABLES
    page,         \* the page the browser shows to the scrape
    now,          \* datetime.now(timezone.utc): the wall clock
    scrape,       \* [fn, ret, saved, data]: the scrape that has run
    file,         \* the argument of parse_nowcast_data
    tz_map,       \* the station list load_timezone_mapping has read
    result,       \* [called, raised, recs]: the call of parse_nowcast_data
    again,        \* [called, raised, recs]: a second call on the same file
    dir,          \* the input directory of the merger
    json_files,   \* the sorted file names
    pc,           \* where parse_all_jsons_to_csv stands
    idx,          \* the number of files the loop has dealt with
    all_results,  \* the records gathered so far
    log,          \* the lines printed so far
    csv,          \* [written, rows]: the writes of the output table
    cities,       \* list(zip(name_list, id_list)): the station list
    max_workers,  \* the size of the thread pool
    work_duration,       \* the length of the work window
    pending_cities,      \* the stations still to scrape
    cycle_num,           \* the number of the cycle
    window_end,          \* cycle_start + work_duration
    futures_dict,        \* the futures not popped, in the order of submission
    futures,             \* [st, res]: the task of each station
    completed_in_cycle,  \* the stations collected in the cycle
    city_index,          \* the number of stations submitted in the cycle
    results,             \* city name -> result
    tracker,             \* [total, completed]: the ProgressTracker
    step,                \* where scrape_all_cities_concurrent stands
    submits,             \* station -> the number of executor.submit calls
    window_closed,       \* the cycle has printed that its window is over
    rests,               \* the number of rests taken
    total_stations,      \* the arguments of generate_random_schedule
    duration_hours,
    avg_scrape_time,
    available_interval_time,
    avg_interval,        \* [num, den]: a fraction
    schedule,            \* the list being built
    sched_pc             \* where generate_random_schedule stands

cycleVars ==
    <<cities, max_workers, work_duration, pending_cities, cycle_num, window_end,
      futures_dict, futures, completed_in_cycle, city_index, results, tracker,
      step, submits, window_closed, rests>>

scheduleVars ==
    <<total_stations, duration_hours, avg_scrape_time, available_interval_time,
      avg_interval, schedule, sched_pc>>

vars ==
    <<page, now, scrape, file, tz_map, result, again,
      dir, json_files, pc, idx, all_results, log, csv, cycleVars, scheduleVars>>

extractorVars == <<page, now, scrape>>
normalizerVars == <<file, result, again>>
mergerVars == <<dir, json_files, pc, idx, all_results, log, csv>>

NotScraped == [fn |-> "none", ret |-> "none", saved |-> FALSE, data |-> NewOut("KBUR", 0)]
NotCalled == [called |-> FALSE, raised |-> FALSE, recs |-> << >>]

ExtractorIdle == page = BlankPage /\ now = 0 /\ scrape = NotScraped
NormalizerIdle == file = CorruptFile /\ result = NotCalled /\ again = NotCalled
MergerIdle ==
    /\ dir = << >> /\ json_files = << >> /\ pc = "off" /\ idx = 0
    /\ all_results = << >> /\ log = << >> /\ csv = NoCsv
CycleIdle ==
    /\ cities = << >> /\ max_workers = 0 /\ work_duration = 0
    /\ pending_cities = << >> /\ cycle_num = 0 /\ window_end = 0
    /\ futures_dict = << >> /\ futures = << >> /\ completed_in_cycle = << >>
    /\ city_index = 0 /\ results = << >> /\ tracker = [total |-> 0, completed |-> 0]
    /\ step = "off" /\ submits = << >> /\ window_closed = FALSE /\ rests = 0
ScheduleIdle ==
    /\ total_stations = 0 /\ duration_hours = 0 /\ avg_scrape_time = 0
    /\ available_interval_time = 0 /\ avg_interval = [num |-> 0, den |-> 1]
    /\ schedule = << >> /\ sched_pc = "off"

(***************************************************************************)
(* The scrapers run on a page.                                             *)
(***************************************************************************)
InitExtract ==
    /\ page \in Pages
    /\ now \in Clock
    /\ scrape = NotScraped
    /\ tz_map = << >>
    /\ NormalizerIdle
    /\ MergerIdle
    /\ CycleIdle
    /\ ScheduleIdle

ScrapeNowcastSvg ==
    /\ scrape.fn = "none"
    /\ \E r \in {scrape_nowcast_svg(page, "KBUR", now)} :
           scrape' = [fn |-> "scrape_nowcast_svg", ret |-> r.ret,
                      saved |-> r.saved, data |-> r.data]
    /\ UNCHANGED <<cycleVars, scheduleVars, page, now, tz_map, normalizerVars,
                   mergerVars>>

ScrapeNowcastSingleCity ==
    /\ scrape.fn = "none"
    /\ \E r \in {scrape_nowcast_single_city(page, "KBUR", now)} :
           scrape' = [fn |-> "scrape_nowcast_single_city", ret |-> r.ret,
                      saved |-> r.saved, data |-> r.data]
    /\ UNCHANGED <<cycleVars, scheduleVars, page, now, tz_map, normalizerVars,
                   mergerVars>>

NextExtract == ScrapeNowcastSvg \/ ScrapeNowcastSingleCity

SpecExtract == InitExtract /\ [][NextExtract]_vars

(***************************************************************************)
(* parse_nowcast_data run on one file.                                     *)
(***************************************************************************)
InitNorm ==
    /\ file \in Files
    /\ tz_map \in TzMaps
    /\ result = NotCalled
    /\ again = NotCalled
    /\ ExtractorIdle
    /\ MergerIdle
    /\ CycleIdle
    /\ ScheduleIdle

ParseNowcastData ==
    /\ ~result.called
    /\ \E r \in {parse_nowcast_data(file, tz_map)} :
           result' = [called |-> TRUE, raised |-> r.raised, recs |-> r.recs]
    /\ UNCHANGED <<cycleVars, scheduleVars, file, tz_map, again, extractorVars,
                   mergerVars>>

\* readings of the wall clock at a later call
LaterClock == {At(5, 12, 0, 0), At(304, 5, 57, 0)}

\* a second call whose list starts with the records of the first
ParseNowcastDataAgainKeeps ==
    /\ result.called
    /\ ~again.called
    /\ \E r \in {parse_nowcast_data(file, tz_map)} :
           again' = [called |-> TRUE, raised |-> r.raised,
                     recs |-> result.recs \o r.recs]
    /\ now' \in LaterClock
    /\ UNCHANGED <<cycleVars, scheduleVars, page, scrape, file, tz_map, result,
                   mergerVars>>

\* parse_nowcast_data called once more, later, on the same file and map:
\* results = [] is local to the call (line 25) and no clock is read
ParseNowcastDataAgain ==
    /\ result.called
    /\ ~again.called
    /\ \E r \in {parse_nowcast_data(file, tz_map)} :
           again' = [called |-> TRUE, raised |-> r.raised, recs |-> r.recs]
    /\ now' \in LaterClock
    /\ UNCHANGED <<cycleVars, scheduleVars, page, scrape, file, tz_map, result,
                   mergerVars>>

NextNorm == ParseNowcastData \/ ParseNowcastDataAgain

SpecNorm == InitNorm /\ [][NextNorm]_vars

(***************************************************************************)
(* parse_all_jsons_to_csv run on one directory.                            *)
(***************************************************************************)
InitMerge ==
    /\ dir \in Dirs
    /\ tz_map \in {<< >>, [c \in Stations |-> "Asia/Kathmandu"]}
    /\ json_files = << >>
    /\ pc = "start"
    /\ idx = 0
    /\ all_results = << >>
    /\ log = << >>
    /\ csv = NoCsv
    /\ ExtractorIdle
    /\ NormalizerIdle
    /\ CycleIdle
    /\ ScheduleIdle

Line(kind, name, n) == [kind |-> kind, name |-> name, n |-> n]

\* lines 282-294
MergeStart ==
    /\ pc = "start"
    /\ json_files' = Sorted(DOMAIN dir)
    /\ log' = log \o <<Line("Loaded", 0, Cardinality(DOMAIN tz_map)),
                       Line("Found", 0, Cardinality(DOMAIN dir))>>
    /\ pc' = "loop"
    /\ UNCHANGED <<cycleVars, scheduleVars, dir, idx, all_results, csv, tz_map,
                   extractorVars, normalizerVars>>

\* lines 296-300: one turn of the loop, the file parses
MergeParsed ==
    /\ pc = "loop"
    /\ idx < Len(json_files)
    /\ \E r \in {parse_nowcast_data(dir[json_files[idx + 1]], tz_map)} :
           /\ ~r.raised
           /\ all_results' = all_results \o r.recs
           /\ log' = Append(log, Line("Parsed", json_files[idx + 1], Len(r.recs)))
    /\ idx' = idx + 1
    /\ UNCHANGED <<cycleVars, scheduleVars, dir, json_files, pc, csv, tz_map,
                   extractorVars, normalizerVars>>

\* an exception that ends the batch
MergeErrorAbort ==
    /\ pc = "loop"
    /\ idx < Len(json_files)
    /\ parse_nowcast_data(dir[json_files[idx + 1]], tz_map).raised
    /\ log' = Append(log, Line("Error", json_files[idx + 1], 0))
    /\ pc' = "done"
    /\ UNCHANGED <<cycleVars, scheduleVars, dir, json_files, idx, all_results, csv, tz_map,
                   extractorVars, normalizerVars>>

\* lines 296-302: one turn of the loop, the file raises
MergeError ==
    /\ pc = "loop"
    /\ idx < Len(json_files)
    /\ parse_nowcast_data(dir[json_files[idx + 1]], tz_map).raised
    /\ log' = Append(log, Line("Error", json_files[idx + 1], 0))
    /\ idx' = idx + 1
    /\ UNCHANGED <<cycleVars, scheduleVars, dir, json_files, pc, all_results, csv, tz_map,
                   extractorVars, normalizerVars>>

\* a write that does not look at the number of records
MergeWriteAlways ==
    /\ pc = "loop"
    /\ idx = Len(json_files)
    /\ csv' = [written |-> csv.written + 1, rows |-> all_results]
    /\ log' = Append(log, Line("Saved", 0, Len(all_results)))
    /\ pc' = "done"
    /\ UNCHANGED <<cycleVars, scheduleVars, dir, json_files, idx, all_results, tz_map,
                   extractorVars, normalizerVars>>

\* lines 304-318
MergeWrite ==
    /\ pc = "loop"
    /\ idx = Len(json_files)
    /\ IF all_results # << >>
       THEN /\ csv' = [written |-> csv.written + 1, rows |-> all_results]
            /\ log' = Append(log, Line("Saved", 0, Len(all_results)))
       ELSE /\ csv' = csv
            /\ log' = Append(log, Line("NoData", 0, 0))
    /\ pc' = "done"
    /\ UNCHANGED <<cycleVars, scheduleVars, dir, json_files, idx, all_results, tz_map,
                   extractorVars, normalizerVars>>

NextMerge == MergeStart \/ MergeParsed \/ MergeError \/ MergeWrite

SpecMerge == InitMerge /\ [][NextMerge]_vars

(***************************************************************************)
(* scrape_all_cities_concurrent of                                         *)
(* google_crawl_nowcast_concurrent_cycle20_sle1hour.py: cycles of work and *)
(* rest.  A station is a pair <<city, city_id>>; a future is named by the  *)
(* station it was submitted for.  The task of a station is [st, res]:      *)
(*   st "none"     not submitted                                           *)
(*      "running"  scrape_city_wrapper is inside scrape_nowcast_svg        *)
(*      "scraped"  scrape_nowcast_svg has returned res ("data" or "None")  *)
(*      "done"     the future is finished; res is the result of the        *)
(*                 scrape, or "raise" when the wrapper ended in an         *)
(*                 exception                                               *)
(* The main thread stands at step; the clock now counts minutes here.      *)
(***************************************************************************)
MaxCities == 3
MaxWorkers == 2

CityNames == <<"Springfield", "Burbank">>

\* the rows of the CSV file: the ids differ, a name may come back
CityList(n) == [i \in 1..n |-> <<CityNames[((i - 1) % Len(CityNames)) + 1], i>>]

StationsOf(list) == {list[i] : i \in 1..Len(list)}

\* work_duration_minutes
WorkDurations == {0, 1}

\* rest_duration_minutes
rest_duration == 1

\* scrape_nowcast_svg returns the dict, returns None, or raises before its
\* try block (line 159: the browser does not start)
Outcomes == {"data", "None", "raise"}

NoTask == [st |-> "none", res |-> "None"]

cycleInputs == <<cities, max_workers, work_duration>>
otherParts == <<page, scrape, tz_map, normalizerVars, mergerVars, scheduleVars>>

\* lines 449 (the guard of the first batch)
BatchOpenWide(index, pending, workers) == index < Len(pending) /\ index <= workers

BatchOpen(index, pending, workers) == index < Len(pending) /\ index < workers

\* a window that never ends
WindowElapsedNever(t, w_end) == FALSE

\* line 492
WindowElapsed(t, w_end) == t >= w_end

\* results[city] = value
Store(res, city, value) ==
    [c \in DOMAIN res \cup {city} |-> IF c = city THEN value ELSE res[c]]

\* what the main thread stores for a future: its result, None when
\* future.result raises
Collected(f) ==
    IF futures[f].st = "done" /\ futures[f].res # "raise" THEN futures[f].res
    ELSE "None"

NotCompleted(f) == \A k \in 1..Len(completed_in_cycle) : completed_in_cycle[k] # f

\* a queue that keeps every station
RemainingAll == pending_cities

\* line 528
Remaining == SelectSeq(pending_cities, NotCompleted)

\* lines 516-525 for the futures fs[k], fs[k + 1], ...
RECURSIVE StoreAll(_, _, _)
StoreAll(res, fs, k) ==
    IF k > Len(fs) THEN res
    ELSE StoreAll(Store(res, fs[k][1], Collected(fs[k])), fs, k + 1)

\* executor.submit(scrape_city_wrapper, ...); futures_dict[future] = (city, city_id)
Submit(f) ==
    /\ futures' = [futures EXCEPT ![f] = [st |-> "running", res |-> "None"]]
    /\ futures_dict' = Append(futures_dict, f)
    /\ submits' = [submits EXCEPT ![f] = @ + 1]
    /\ city_index' = city_index + 1

InitCycle ==
    /\ cities \in {CityList(n) : n \in 0..MaxCities}
    /\ max_workers \in 1..MaxWorkers
    /\ work_duration \in WorkDurations
    /\ pending_cities = cities
    /\ cycle_num = 1
    /\ window_end = 0
    /\ futures_dict = << >>
    /\ futures = [f \in StationsOf(cities) |-> NoTask]
    /\ completed_in_cycle = << >>
    /\ city_index = 0
    /\ results = << >>
    /\ tracker = [total |-> Len(cities), completed |-> 0]
    /\ step = "cycle"
    /\ submits = [f \in StationsOf(cities) |-> 0]
    /\ window_closed = FALSE
    /\ rests = 0
    /\ tz_map = << >>
    /\ ExtractorIdle
    /\ NormalizerIdle
    /\ MergerIdle
    /\ ScheduleIdle

\* lines 428-446: a cycle starts
CycleStart ==
    /\ step = "cycle"
    /\ pending_cities # << >>
    /\ window_end' = now + work_duration
    /\ futures_dict' = << >>
    /\ completed_in_cycle' = << >>
    /\ city_index' = 0
    /\ window_closed' = FALSE
    /\ step' = "batch"
    /\ UNCHANGED <<cycleInputs, otherParts, now, pending_cities, cycle_num, futures,
                   results, tracker, submits, rests>>

\* lines 449-461: one turn of the loop of the first batch
BatchSubmit ==
    /\ step = "batch"
    /\ BatchOpen(city_index, pending_cities, max_workers)
    /\ Submit(pending_cities[city_index + 1])
    /\ UNCHANGED <<cycleInputs, otherParts, now, pending_cities, cycle_num, window_end,
                   completed_in_cycle, results, tracker, step, window_closed, rests>>

BatchEnd ==
    /\ step = "batch"
    /\ ~BatchOpen(city_index, pending_cities, max_workers)
    /\ step' = "collect"
    /\ UNCHANGED <<cycleInputs, otherParts, now, pending_cities, cycle_num, window_end,
                   futures_dict, futures, completed_in_cycle, city_index, results,
                   tracker, submits, window_closed, rests>>

\* lines 465-489: a finished future is taken from futures_dict and its
\* result stored; while none is finished the loop waits
Collect ==
    /\ step = "collect"
    /\ \E k \in 1..Len(futures_dict) :
           /\ futures[futures_dict[k]].st = "done"
           /\ futures_dict' = SubSeq(futures_dict, 1, k - 1)
                                  \o SubSeq(futures_dict, k + 1, Len(futures_dict))
           /\ results' = Store(results, futures_dict[k][1], Collected(futures_dict[k]))
           /\ completed_in_cycle' = Append(completed_in_cycle, futures_dict[k])
    /\ step' = "window"
    /\ UNCHANGED <<cycleInputs, otherParts, now, pending_cities, cycle_num, window_end,
                   futures, city_index, tracker, submits, window_closed, rests>>

\* line 465: futures_dict is empty
CollectEnd ==
    /\ step = "collect"
    /\ futures_dict = << >>
    /\ step' = "shutdown"
    /\ UNCHANGED <<cycleInputs, otherParts, now, pending_cities, cycle_num, window_end,
                   futures_dict, futures, completed_in_cycle, city_index, results,
                   tracker, submits, window_closed, rests>>

\* lines 492-494
WindowCheck ==
    /\ step = "window"
    /\ IF WindowElapsed(now, window_end)
       THEN window_closed' = TRUE /\ step' = "shutdown"
       ELSE window_closed' = window_closed /\ step' = "submit"
    /\ UNCHANGED <<cycleInputs, otherParts, now, pending_cities, cycle_num, window_end,
                   futures_dict, futures, completed_in_cycle, city_index, results,
                   tracker, submits, rests>>

\* lines 497-509
SubmitNext ==
    /\ step = "submit"
    /\ IF city_index < Len(pending_cities)
       THEN Submit(pending_cities[city_index + 1])
       ELSE UNCHANGED <<futures, futures_dict, submits, city_index>>
    /\ step' = "collect"
    /\ UNCHANGED <<cycleInputs, otherParts, now, pending_cities, cycle_num, window_end,
                   completed_in_cycle, results, tracker, window_closed, rests>>

\* line 513: executor.shutdown(wait=True) returns when every task of the
\* pool has finished
Shutdown ==
    /\ step = "shutdown"
    /\ \A k \in 1..city_index : futures[pending_cities[k]].st = "done"
    /\ step' = "leftover"
    /\ UNCHANGED <<cycleInputs, otherParts, now, pending_cities, cycle_num, window_end,
                   futures_dict, futures, completed_in_cycle, city_index, results,
                   tracker, submits, window_closed, rests>>

\* lines 516-525: the futures the loop has not popped
Leftover ==
    /\ step = "leftover"
    /\ results' = StoreAll(results, SelectSeq(futures_dict, NotCompleted), 1)
    /\ completed_in_cycle' = completed_in_cycle \o SelectSeq(futures_dict, NotCompleted)
    /\ step' = "remove"
    /\ UNCHANGED <<cycleInputs, otherParts, now, pending_cities, cycle_num, window_end,
                   futures_dict, futures, city_index, tracker, submits, window_closed,
                   rests>>

\* lines 528-538
RemoveCompleted ==
    /\ step = "remove"
    /\ pending_cities' = Remaining
    /\ step' = "rest"
    /\ UNCHANGED <<cycleInputs, otherParts, now, cycle_num, window_end, futures_dict,
                   futures, completed_in_cycle, city_index, results, tracker, submits,
                   window_closed, rests>>

\* lines 541-545: time.sleep(rest_duration) when stations are left
Rest ==
    /\ step = "rest"
    /\ IF pending_cities # << >>
       THEN /\ now' = now + rest_duration
            /\ cycle_num' = cycle_num + 1
            /\ rests' = rests + 1
       ELSE UNCHANGED <<now, cycle_num, rests>>
    /\ step' = "cycle"
    /\ UNCHANGED <<cycleInputs, otherParts, pending_cities, window_end, futures_dict,
                   futures, completed_in_cycle, city_index, results, tracker, submits,
                   window_closed>>

\* lines 428 and 547-553: the queue is empty, results is returned
ReturnResults ==
    /\ step = "cycle"
    /\ pending_cities = << >>
    /\ step' = "done"
    /\ UNCHANGED <<cycleInputs, otherParts, now, pending_cities, cycle_num, window_end,
                   futures_dict, futures, completed_in_cycle, city_index, results,
                   tracker, submits, window_closed, rests>>

\* line 381: scrape_nowcast_svg ends in a pool thread; when it raises, the
\* wrapper ends there and the future is finished with the exception
WorkerScrape(f) ==
    /\ f \in StationsOf(cities)
    /\ futures[f].st = "running"
    /\ \E o \in Outcomes :
           futures' = [futures EXCEPT ![f] =
                          IF o = "raise" THEN [st |-> "done", res |-> "raise"]
                          ELSE [st |-> "scraped", res |-> o]]
    /\ UNCHANGED <<cycleInputs, otherParts, now, pending_cities, cycle_num, window_end,
                   futures_dict, completed_in_cycle, city_index, results, tracker,
                   step, submits, window_closed, rests>>

\* lines 382-393: tracker.increment() under its lock, the progress line,
\* return city, result
WorkerReturn(f) ==
    /\ f \in StationsOf(cities)
    /\ futures[f].st = "scraped"
    /\ tracker' = [tracker EXCEPT !.completed = @ + 1]
    /\ futures' = [futures EXCEPT ![f].st = "done"]
    /\ UNCHANGED <<cycleInputs, otherParts, now, pending_cities, cycle_num, window_end,
                   futures_dict, completed_in_cycle, city_index, results, step,
                   submits, window_closed, rests>>

\* a minute of the work window goes by; the minutes after window_end change
\* nothing that the cycle reads
Tick ==
    /\ step \notin {"off", "cycle", "done"}
    /\ now < window_end
    /\ now' = now + 1
    /\ UNCHANGED <<cycleVars, otherParts>>

MainThread ==
    \/ CycleStart \/ BatchSubmit \/ BatchEnd \/ Collect \/ CollectEnd \/ WindowCheck
    \/ SubmitNext \/ Shutdown \/ Leftover \/ RemoveCompleted \/ Rest \/ ReturnResults

NextCycle ==
    \/ MainThread
    \/ \E f \in StationsOf(cities) : WorkerScrape(f)
    \/ \E f \in StationsOf(cities) : WorkerReturn(f)
    \/ Tick

SpecCycle == InitCycle /\ [][NextCycle]_vars

\* the main thread goes on and every task comes to its end
SpecCycleFair ==
    /\ SpecCycle
    /\ WF_vars(MainThread)
    /\ \A f \in StationsOf(CityList(MaxCities)) :
           WF_vars(WorkerScrape(f)) /\ WF_vars(WorkerReturn(f))

(***************************************************************************)
(* google_crawl_nowcast_single_random_sleep.py: generate_random_schedule.  *)
(* The arguments are integers, so available_interval_time is an integer    *)
(* and avg_interval is the fraction num / den (1 / 1 in the branch that    *)
(* warns); int() cuts a float towards zero.  random.randint(a, b) returns  *)
(* any integer of a..b and raises ValueError when a > b.                   *)
(***************************************************************************)
MaxStations == 3
MaxInterval == 2

\* avg_scrape_time around the value that uses the whole duration up
ScrapeTimes(n, d) ==
    {s \in {(d * Hour) \div n + k : k \in (0 - MaxInterval)..1} : s >= 0}

\* int(num / den) for den > 0
IntTowardsZero(num, den) ==
    IF num >= 0 THEN num \div den ELSE 0 - ((0 - num) \div den)

SmallerOf(a, b) == IF a <= b THEN a ELSE b

\* lines 453-460
AvgInterval(available, n) ==
    IF available < 0 THEN [num |-> 1, den |-> 1]
    ELSE [num |-> available, den |-> n]

\* lines 472-473, i counted from 0
SegmentStart(i) == IntTowardsZero(i * avg_interval.num, avg_interval.den)
SegmentEnd(i) == IntTowardsZero((i + 1) * avg_interval.num, avg_interval.den)

\* the upper end handed to random.randint at line 476
RandintHigh(i) == SmallerOf(SegmentEnd(i), available_interval_time)

scheduleFrame == <<extractorVars, tz_map, normalizerVars, mergerVars, cycleVars>>
scheduleInputs == <<total_stations, duration_hours, avg_scrape_time>>

InitSchedule ==
    /\ total_stations \in 1..MaxStations
    /\ duration_hours \in {0, 1}
    /\ avg_scrape_time \in ScrapeTimes(total_stations, duration_hours)
    /\ available_interval_time = 0
    /\ avg_interval = [num |-> 0, den |-> 1]
    /\ schedule = << >>
    /\ sched_pc = "start"
    /\ tz_map = << >>
    /\ ExtractorIdle
    /\ NormalizerIdle
    /\ MergerIdle
    /\ CycleIdle

\* lines 447-460
ScheduleStart ==
    /\ sched_pc = "start"
    /\ \E available \in {duration_hours * Hour - total_stations * avg_scrape_time} :
           /\ available_interval_time' = available
           /\ avg_interval' = AvgInterval(available, total_stations)
    /\ schedule' = << >>
    /\ sched_pc' = "loop"
    /\ UNCHANGED <<scheduleFrame, scheduleInputs>>

\* lines 470-477: one turn of the loop, i = Len(schedule)
SchedulePick ==
    /\ sched_pc = "loop"
    /\ Len(schedule) < total_stations
    /\ \E random_time \in SegmentStart(Len(schedule))..RandintHigh(Len(schedule)) :
           schedule' = Append(schedule, random_time)
    /\ UNCHANGED <<scheduleFrame, scheduleInputs, available_interval_time,
                   avg_interval, sched_pc>>

\* line 476: random.randint raises for an empty range
ScheduleRaise ==
    /\ sched_pc = "loop"
    /\ Len(schedule) < total_stations
    /\ SegmentStart(Len(schedule)) > RandintHigh(Len(schedule))
    /\ sched_pc' = "raised"
    /\ UNCHANGED <<scheduleFrame, scheduleInputs, available_interval_time,
                   avg_interval, schedule>>

\* lines 479-482: random.shuffle(schedule); return schedule
ScheduleShuffle ==
    /\ sched_pc = "loop"
    /\ Len(schedule) = total_stations
    /\ \E p \in Permutations(1..Len(schedule)) :
           schedule' = [i \in 1..Len(schedule) |-> schedule[p[i]]]
    /\ sched_pc' = "returned"
    /\ UNCHANGED <<scheduleFrame, scheduleInputs, available_interval_time,
                   avg_interval>>

NextSchedule == ScheduleStart \/ SchedulePick \/ ScheduleRaise \/ ScheduleShuffle

SpecSchedule == InitSchedule /\ [][NextSchedule]_vars

(***************************************************************************)
(* The whole program: each part runs on its own inputs.                    *)
(***************************************************************************)
Init == InitExtract \/ InitNorm \/ InitMerge \/ InitCycle \/ InitSchedule
Next == NextExtract \/ NextNorm \/ NextMerge \/ NextCycle \/ NextSchedule
Spec == Init /\ [][Next]_vars

(***************************************************************************)
(* Shapes of pages and artifacts, as the documentation names them.         *)
(***************************************************************************)
\* the variant the precedence of the documentation selects for a page
ExpectedVariant(pg) ==
    IF pg.robot THEN "Robot"
    ELSE IF Len(pg.rects) >= 1 THEN "BarChart"
    ELSE IF pg.container /\ (~pg.div1.null \/ ~pg.div2.null) THEN "FreeText"
    ELSE IF pg.hourly /\ \E i \in 1..Len(pg.items) : i <= 6 /\ pg.items[i] # << >>
    THEN "HourlyList"
    ELSE "Empty"

\* the variant an artifact is read as (the discriminator mapping)
VariantOf(data) ==
    IF data.type = "robot" THEN "Robot"
    ELSE IF data.type = "nowcast" /\ data.points # << >> THEN "BarChart"
    ELSE IF data.type = "nowcast" /\ data.fallback_data.present THEN "FreeText"
    ELSE IF data.type = "hourly" /\ data.hourly_data # << >> THEN "HourlyList"
    ELSE "Empty"

\* the artifact carries the data of its variant and of no other
OwnDataOnly(data) ==
    /\ VariantOf(data) # "BarChart" => data.points = << >>
    /\ VariantOf(data) # "FreeText" => ~data.fallback_data.present
    /\ VariantOf(data) # "HourlyList" => data.hourly_data = << >>
    /\ data.message <=> VariantOf(data) = "Empty"

Parsed(variant) ==
    /\ result.called
    /\ ~file.corrupt
    /\ VariantOf(file.data) = variant

\* the points carry minute_index 0, 1, 2, ... as the scrapers write them
ExtractorIndexed(data) ==
    \A i \in 1..Len(data.points) : data.points[i].minute_index = i - 1

\* the zone parse_nowcast_data uses for the file
FileTz == LocalTz(file.data.city_id, tz_map)

(***************************************************************************)
(* C1: a scrape persists exactly one artifact, of the variant selected by  *)
(* the precedence Robot, BarChart, FreeText, HourlyList, Empty, carrying   *)
(* the data of that variant only.  The statement of the claim: violated by *)
(* scrape_nowcast_svg on a page whose fallback container has one block.    *)
(***************************************************************************)
C1_Precedence ==
    scrape.fn # "none" =>
        /\ scrape.ret = "out"
        /\ scrape.saved
        /\ VariantOf(scrape.data) = ExpectedVariant(page)
        /\ OwnDataOnly(scrape.data)

(***************************************************************************)
(* C2: a BarChart artifact with a parseable scrape_time yields one record  *)
(* per point, in point order, with leadtime = 2 * minute_index; with the   *)
(* indexes 0, 1, 2, ... the leadtimes are 0, 2, 4, ... strictly            *)
(* increasing.                                                             *)
(***************************************************************************)
C2_OneRecordPerPoint ==
    Parsed("BarChart") /\ file.data.scrape_time.ok =>
        /\ ~result.raised
        /\ Len(result.recs) = Len(file.data.points)
        /\ \A i \in 1..Len(result.recs) :
               /\ i <= Len(file.data.points)
               /\ result.recs[i].leadtime = 2 * file.data.points[i].minute_index
               /\ result.recs[i].type = "nowcast"
        /\ ExtractorIndexed(file.data) =>
               /\ \A i \in 1..Len(result.recs) : result.recs[i].leadtime = 2 * (i - 1)
               /\ \A i \in 1..(Len(result.recs) - 1) :
                      result.recs[i].leadtime < result.recs[i + 1].leadtime

C2_Witness ==
    /\ Parsed("BarChart")
    /\ file.data.scrape_time.ok
    /\ ExtractorIndexed(file.data)
    /\ Len(file.data.points) = MaxRects
    /\ result.recs[MaxRects].leadtime = 2 * (MaxRects - 1)

(***************************************************************************)
(* C3: the minute of the local valid_time of every BarChart record is      *)
(* even, whatever the zone of the station.  The statement of the claim:    *)
(* violated for a zone whose offset is an odd number of minutes.           *)
(***************************************************************************)
C3_EvenLocalMinute ==
    Parsed("BarChart") /\ file.data.scrape_time.ok =>
        \A i \in 1..Len(result.recs) : result.recs[i].valid_time.m % 2 = 0

Scanned ==
    /\ Parsed("FreeText")
    /\ file.data.scrape_time.ok
    /\ HasKeyword(CombinedText(file.data.fallback_data))

FileRanges == FindIter(file.data.fallback_data.div2_text.s)

FilePeriods == PrecipPeriods(FileRanges, file.data.scrape_time.t, FileTz)

\* the UTC instant of the i-th record of a series, from its lead time
Cursor(i) == file.data.scrape_time.t + result.recs[i].leadtime * Minute

SinglePeriod ==
    /\ Scanned
    /\ ~file.data.fallback_data.div2_text.null
    /\ ~result.raised
    /\ Len(FileRanges) = 1

(***************************************************************************)
(* C5: for one parsed period the dense series has precip 1 inside the      *)
(* window and precip 0 one step before start and one step after end.  The  *)
(* statement of the claim (C5_WindowEdges) is violated: the series stops   *)
(* at the last step that is not after end.  The amended statement          *)
(* (C5_WindowNoTail): precip is 1 at every emitted step from start on and  *)
(* 0 at every emitted step before start, in particular at the step just    *)
(* before start when scrape_time is before start; no step after end is     *)
(* emitted.                                                                *)
(***************************************************************************)
\* the step just outside one side of the window has precip 0
StepBefore(p) ==
    \E i \in 1..Len(result.recs) :
        /\ Cursor(i) < p.start
        /\ p.start <= Cursor(i) + Minutes(2)
        /\ result.recs[i].precip = 0

StepAfter(p) ==
    \E i \in 1..Len(result.recs) :
        /\ p.end < Cursor(i)
        /\ Cursor(i) - Minutes(2) <= p.end
        /\ result.recs[i].precip = 0

C5_WindowEdges ==
    SinglePeriod =>
        \A p \in {FilePeriods[1]} :
            /\ \A i \in 1..Len(result.recs) :
                   p.start <= Cursor(i) /\ Cursor(i) <= p.end => result.recs[i].precip = 1
            /\ StepBefore(p)
            /\ StepAfter(p)

C5_WindowNoTail ==
    SinglePeriod =>
        \A p \in {FilePeriods[1]} :
            /\ result.recs # << >>
            /\ \A i \in 1..Len(result.recs) :
                   /\ Cursor(i) <= p.end
                   /\ result.recs[i].precip = 1 <=> p.start <= Cursor(i)
                   /\ result.recs[i].precip \in {0, 1}
            /\ Cursor(Len(result.recs)) + Minutes(2) > p.end
            /\ file.data.scrape_time.t < p.start => StepBefore(p)

\* the example: scrape_time 2026-01-06T12:00:00Z, zone UTC, 7:00 AM to 9:30 AM
C5_Witness ==
    /\ SinglePeriod
    /\ file.data.fallback_data.div2_text.s = txt_range
    /\ file.data.scrape_time.t = At(5, 12, 0, 0)
    /\ FileTz = PytzTimezone("UTC")
    /\ FilePeriods[1] = [start |-> At(6, 7, 0, 0), end |-> At(6, 9, 30, 0)]
    /\ Len(result.recs) = 646
    /\ result.recs[570].precip = 0
    /\ result.recs[571].precip = 1
    /\ result.recs[646].precip = 1

(***************************************************************************)
(* C6: a FreeText artifact with a precipitation keyword and no time range  *)
(* yields exactly one record: leadtime 0, precip 1, valid_time the         *)
(* formatted scrape_time; also when the long block is null.  The statement *)
(* of the claim: violated for a null long block, where the scan raises.    *)
(***************************************************************************)
C6_DegradedPoint ==
    Scanned /\ (file.data.fallback_data.div2_text.null \/ FileRanges = << >>) =>
        /\ ~result.raised
        /\ Len(result.recs) = 1
        /\ result.recs[1].leadtime = 0
        /\ result.recs[1].precip = 1
        /\ result.recs[1].valid_time = ScrapeTimeFormatted(file.data.scrape_time, FileTz)

(***************************************************************************)
(* C7: a directory of N valid artifacts and one corrupt file yields the    *)
(* records of the N valid files and a reported skip count of 1.  The       *)
(* statement of the claim (C7_SkipCount) is violated: no line reports a    *)
(* count of skipped files.  The amended statement (C7_ErrorLines): with    *)
(* one corrupt file in the directory, at any place, every file is dealt    *)
(* with, the table holds exactly the records of the files whose parsing    *)
(* does not raise, in file-name order, and one error line is printed per   *)
(* file whose parsing raises, the corrupt file among them; no skip count   *)
(* is printed.                                                             *)
(***************************************************************************)
Raising == {n \in DOMAIN dir : parse_nowcast_data(dir[n], tz_map).raised}

OneCorrupt == Cardinality({n \in DOMAIN dir : dir[n].corrupt}) = 1

RECURSIVE RecordsFrom(_)
RecordsFrom(n) ==
    IF n > MaxFiles THEN << >>
    ELSE IF n \in DOMAIN dir
    THEN parse_nowcast_data(dir[n], tz_map).recs \o RecordsFrom(n + 1)
    ELSE RecordsFrom(n + 1)

Lines(kind) == {i \in 1..Len(log) : log[i].kind = kind}

NoTime ==
    /\ result.called
    /\ ~file.corrupt
    /\ VariantOf(file.data) \in {"BarChart", "FreeText", "HourlyList"}
    /\ ~file.data.scrape_time.ok

Emitted ==
    /\ result.called
    /\ ~file.corrupt
    /\ ~result.raised
    /\ ExtractorIndexed(file.data)

Rising(i) == TimeLeq(result.recs[i].valid_time, result.recs[i + 1].valid_time)

LastInstant ==
    file.data.scrape_time.t
        + result.recs[Len(result.recs)].leadtime
            * (IF result.recs[1].type = "hourly" THEN Hour ELSE Minute)

OffsetNotSetBack ==
    file.data.scrape_time.ok /\ result.recs # << >> =>
        UtcOffset(FileTz, file.data.scrape_time.t - Hour) <= UtcOffset(FileTz, LastInstant)

C10_EndNotBeforeStart ==
    Scanned /\ ~result.raised /\ ~file.data.fallback_data.div2_text.null =>
        \A ps \in {FilePeriods} : \A i \in 1..Len(ps) : ps[i].end >= ps[i].start

\* 9:00 AM to 7:00 AM scraped at 12:00: both ends roll, the end twice
C10_Witness ==
    /\ Scanned
    /\ ~result.raised
    /\ file.data.fallback_data.div2_text.s = txt_wrap
    /\ file.data.scrape_time.t = At(5, 12, 0, 0)
    /\ ~FileTz.known
    /\ FilePeriods = <<[start |-> At(6, 9, 0, 0), end |-> At(7, 7, 0, 0)]>>
    /\ result.recs # << >>

Walk(k) == file.data.scrape_time.t + (k - 1) * 2 * Minute

Covered(ps, t) == \E i \in 1..Len(ps) : ps[i].start <= t /\ t <= ps[i].end

WalkedTo(ps, max_end) ==
    /\ result.recs # << >>
    /\ result.recs[1].leadtime = 0
    /\ \A k \in 1..Len(result.recs) :
           /\ result.recs[k].leadtime = 2 * (k - 1)
           /\ Walk(k) <= max_end
           /\ result.recs[k].precip = (IF Covered(ps, Walk(k)) THEN 1 ELSE 0)
           /\ result.recs[k].valid_time.m % 2 = 0
           /\ result.recs[k].type = "nowcast"
    /\ Walk(Len(result.recs) + 1) > max_end

C12_DenseSeries ==
    /\ Scanned
    /\ ~result.raised
    /\ ~file.data.fallback_data.div2_text.null
    /\ FileRanges # << >>
    => \A ps \in {FilePeriods} :
           \E i \in 1..Len(ps) :
               /\ \A j \in 1..Len(ps) : ps[j].end <= ps[i].end
               /\ WalkedTo(ps, ps[i].end)

\* two ranges scraped at 12:00:00, 12:10 PM to 12:30 PM and 1:00 PM to
\* 1:20 PM: 41 records, the last one at max_end
C12_Witness ==
    /\ Scanned
    /\ ~result.raised
    /\ file.data.fallback_data.div2_text.s = txt_two
    /\ file.data.scrape_time.t = At(5, 12, 0, 0)
    /\ ~FileTz.known
    /\ Len(FilePeriods) = 2
    /\ Len(result.recs) = 41
    /\ result.recs[5].precip = 0
    /\ result.recs[6].precip = 1
    /\ result.recs[16].precip = 1
    /\ result.recs[17].precip = 0
    /\ result.recs[41].precip = 1
    /\ result.recs[41].leadtime = 80

(***************************************************************************)
(* C13: the precip of a BarChart record is 1 iff the height of its point   *)
(* is a number above zero; a height that is no number, empty or null gives *)
(* precip 0 and does not raise, the other points are still emitted.        *)
(***************************************************************************)
\* the heights of the artifacts that are numbers above zero
PositiveHeights ==
    {Str(<<"1", "2", ".", "5">>), Str(<<"0", ".", "2", "5">>), Str(<<"+", "7">>)}

C13_HeightFlag ==
    Parsed("BarChart") =>
        /\ ~result.raised
        /\ Len(result.recs) = Len(file.data.points)
        /\ \A i \in 1..Len(result.recs) :
               /\ i <= Len(file.data.points)
               /\ result.recs[i].precip =
                      (IF file.data.points[i].height \in PositiveHeights THEN 1 ELSE 0)

\* a null height and a height above zero in one artifact
C13_Witness ==
    /\ Parsed("BarChart")
    /\ Len(result.recs) = MaxRects
    /\ \E i, j, k \in 1..Len(result.recs) :
           /\ file.data.points[i].height.null
           /\ result.recs[i].precip = 0
           /\ file.data.points[j].height = Str(<<"+", "7">>)
           /\ result.recs[j].precip = 1
           /\ file.data.points[k].height = Str(<<"a", "u", "t", "o">>)
           /\ result.recs[k].precip = 0

(***************************************************************************)
(* C14: an HourlyList artifact yields one record per entry, in index       *)
(* order; precip is 1 iff the third comma-separated field holds one of the *)
(* keywords as a substring, letter case ignored; an entry with fewer than  *)
(* three fields still yields a record, with precip 0.                      *)
(***************************************************************************)
\* the labels whose third field holds a keyword: "Light Rain", " Showers",
\* "SLEET"
RainyLabels == {lbl_now_rain, lbl_showers, lbl_sleet}

C14_HourlyFlag ==
    Parsed("HourlyList") =>
        /\ ~result.raised
        /\ Len(result.recs) = Len(file.data.hourly_data)
        /\ \A i \in 1..Len(result.recs) :
               /\ i <= Len(file.data.hourly_data)
               /\ result.recs[i].type = "hourly"
               /\ result.recs[i].precip =
                      (IF file.data.hourly_data[i] \in RainyLabels THEN 1 ELSE 0)

C14_Witness ==
    /\ Parsed("HourlyList")
    /\ file.data.hourly_data =
           <<lbl_now_rain, lbl_cloudy, lbl_showers, lbl_short, lbl_fourth, lbl_sleet>>
    /\ Len(result.recs) = 6
    /\ result.recs[3].precip = 1
    /\ result.recs[4].precip = 0
    /\ result.recs[5].precip = 0
    /\ result.recs[6].precip = 1

(***************************************************************************)
(* C15: an artifact of type robot, of type null, or with the no-data       *)
(* sentinel (and, as the scrapers write it, no data) yields no record, and *)
(* so does an artifact of type nowcast with empty points and no            *)
(* fallback_data.                                                          *)
(***************************************************************************)
NoData(data) ==
    /\ data.points = << >>
    /\ ~data.fallback_data.present
    /\ data.hourly_data = << >>

ZeroRecordShape(data) ==
    \/ data.type = "robot"
    \/ data.type = "null"
    \/ data.message /\ NoData(data)
    \/ data.type = "nowcast" /\ data.points = << >> /\ ~data.fallback_data.present

C15_ZeroRecords ==
    result.called /\ ~file.corrupt /\ ZeroRecordShape(file.data) =>
        ~result.raised /\ result.recs = << >>

\* a robot artifact that carries points all the same
C15_Witness ==
    /\ result.called
    /\ ~file.corrupt
    /\ file.data.type = "robot"
    /\ Len(file.data.points) = MaxRects
    /\ ~result.raised
    /\ result.recs = << >>

(***************************************************************************)
(* C16: the output table is the concatenation, in the order of the file    *)
(* names, of the record sequence of each file that parses, each in its own *)
(* order; the merge drops, repeats and reorders nothing.                   *)
(***************************************************************************)
\* the records of the files named 1..n, in the order of the names; a file
\* whose parsing raises gives none
RECURSIVE RecordsUpTo(_)
RecordsUpTo(n) ==
    IF n = 0 THEN << >>
    ELSE IF n \in DOMAIN dir
    THEN RecordsUpTo(n - 1) \o parse_nowcast_data(dir[n], tz_map).recs
    ELSE RecordsUpTo(n - 1)

NameOrder ==
    /\ {json_files[i] : i \in 1..Len(json_files)} = DOMAIN dir
    /\ \A i \in 1..(Len(json_files) - 1) : json_files[i] < json_files[i + 1]

C16_MergeOrder ==
    pc \in {"loop", "done"} =>
        /\ NameOrder
        /\ idx <= Len(json_files)
        /\ all_results = (IF idx = 0 THEN << >> ELSE RecordsUpTo(json_files[idx]))
        /\ csv.written > 0 => csv.rows = RecordsUpTo(MaxFiles)

\* two files with records of their own, both in the table
C16_Witness ==
    /\ pc = "done"
    /\ DOMAIN dir = 1..MaxFiles
    /\ \A r1 \in {parse_nowcast_data(dir[1], tz_map).recs} :
       \A r2 \in {parse_nowcast_data(dir[2], tz_map).recs} :
           /\ r1 # << >>
           /\ r2 # << >>
           /\ r1[1] # r2[1]
           /\ csv.written = 1
           /\ SubSeq(csv.rows, 1, Len(r1)) = r1
           /\ SubSeq(csv.rows, Len(r1) + 1, Len(r1) + Len(r2)) = r2

(***************************************************************************)
(* C17: the output table is written at most once per batch and only after *)
(* every file has been dealt with; a batch without any record writes no    *)
(* table and reports "no data".                                            *)
(***************************************************************************)
C17_WriteOnce ==
    /\ csv.written <= 1
    /\ csv.written = 1 =>
           /\ pc = "done"
           /\ idx = Cardinality(DOMAIN dir)
           /\ csv.rows # << >>
           /\ Lines("Saved") # {}
           /\ Lines("NoData") = {}
    /\ pc = "done" /\ all_results = << >> =>
           /\ csv = NoCsv
           /\ Cardinality(Lines("NoData")) = 1
           /\ Lines("Saved") = {}
    /\ pc = "done" /\ all_results # << >> => csv.written = 1

\* a batch of two files without any record
C17_Witness ==
    /\ pc = "done"
    /\ DOMAIN dir = 1..MaxFiles
    /\ idx = MaxFiles
    /\ all_results = << >>
    /\ csv = NoCsv
    /\ \E i \in 1..Len(log) : log[i].kind = "NoData"
    /\ \E i \in 1..Len(log) : log[i].kind = "Parsed"

NoZone ==
    \/ file.data.city_id \notin DOMAIN tz_map
    \/ tz_map[file.data.city_id] \notin TzNames

UtcMap == [c \in Stations |-> "UTC"]

C19_TimezoneFallback ==
    result.called /\ ~file.corrupt /\ NoZone =>
        \A u \in {parse_nowcast_data(file, UtcMap)} :
            /\ result.raised = u.raised
            /\ Len(result.recs) = Len(u.recs)
            /\ \A i \in 1..Len(result.recs) :
                   /\ result.recs[i].scrape_time = u.recs[i].scrape_time
                   /\ result.recs[i].valid_time = u.recs[i].valid_time
                   /\ file.data.scrape_time.ok =>
                          result.recs[i].scrape_time = Strftime(file.data.scrape_time.t)

\* a tz value that names no zone
C19_Witness ==
    /\ Parsed("BarChart")
    /\ file.data.city_id \in DOMAIN tz_map
    /\ tz_map[file.data.city_id] = "Mars/Phobos"
    /\ file.data.scrape_time.t = At(5, 23, 59, 10)
    /\ ~result.raised
    /\ Len(result.recs) = MaxRects
    /\ result.recs[1].scrape_time = [e |-> FALSE, d |-> 5, h |-> 23, m |-> 59]
    /\ result.recs[2].valid_time = [e |-> FALSE, d |-> 6, h |-> 0, m |-> 0]

(***************************************************************************)
(* C20: the start of every matched range, after its rollover, is not       *)
(* before the scrape time: a start clock time that, on the date of the     *)
(* scrape (local, else UTC), is before the scrape time is moved forward by *)
(* one day, any other is left on that date; so                             *)
(* scrape_time <= start < scrape_time + 24 h.                              *)
(***************************************************************************)
\* the UTC offset of the zone the ranges are read in
FileOffset == IF FileTz.known THEN UtcOffset(FileTz, file.data.scrape_time.t) ELSE 0

\* the clock time of the range on the date of the scrape, as a UTC instant
OnScrapeDate(r, off) ==
    ((file.data.scrape_time.t + off) \div Day) * Day
        + To24(r.sh, r.spm) * Hour + r.sm * Minute - off

StartRolled(r, p, off) ==
    /\ file.data.scrape_time.t <= p.start
    /\ p.start < file.data.scrape_time.t + Day
    /\ p.start = (IF OnScrapeDate(r, off) < file.data.scrape_time.t
                  THEN OnScrapeDate(r, off) + Day
                  ELSE OnScrapeDate(r, off))

C20_StartNotBeforeScrape ==
    Scanned /\ ~result.raised /\ ~file.data.fallback_data.div2_text.null =>
        \A rs \in {FileRanges} : \A ps \in {FilePeriods} : \A off \in {FileOffset} :
            \A i \in 1..Len(rs) : StartRolled(rs[i], ps[i], off)

\* 7:00 AM read in Asia/Kathmandu at 12:00 UTC (17:45 local): rolled to the
\* next local day, 01:15 UTC
C20_Witness ==
    /\ Scanned
    /\ ~result.raised
    /\ file.data.fallback_data.div2_text.s = txt_range
    /\ file.data.scrape_time.t = At(5, 12, 0, 0)
    /\ FileTz = PytzTimezone("Asia/Kathmandu")
    /\ FilePeriods[1].start = At(6, 1, 15, 0)
    /\ result.recs # << >>

(***************************************************************************)
(* C21: the rollover is capped at one day: neither the start nor the end   *)
(* of a period lies on a calendar day more than one day after the date of  *)
(* the scrape (dates read in the zone of the computation).  The statement  *)
(* of the claim: violated for the end, which lines 154-157 roll twice when *)
(* both clock times are before the scrape time and the end clock time is   *)
(* before the start clock time, and which an open range that starts in the *)
(* evening carries to the second day.                                      *)
(***************************************************************************)
\* the calendar days between the date of the scrape and the date of t
DaysAfterScrape(t, off) ==
    (t + off) \div Day - (file.data.scrape_time.t + off) \div Day

C21_RolloverCapped ==
    Scanned /\ ~result.raised /\ ~file.data.fallback_data.div2_text.null =>
        \A ps \in {FilePeriods} : \A off \in {FileOffset} :
            \A i \in 1..Len(ps) :
                /\ DaysAfterScrape(ps[i].start, off) \in {0, 1}
                /\ DaysAfterScrape(ps[i].end, off) \in {0, 1}

(***************************************************************************)
(* C22: a FreeText artifact whose combined text (short block, a space,     *)
(* long block, lower case) holds none of the precipitation keywords yields *)
(* no record and does not raise, whether or not the long block holds time  *)
(* ranges, and also when a block is null.                                  *)
(***************************************************************************)
C22_NoKeywordNoRecord ==
    Parsed("FreeText") /\ ~HasKeyword(CombinedText(file.data.fallback_data)) =>
        /\ ~result.raised
        /\ result.recs = << >>

\* 'Cloudy' and 'Hail from 7:00 AM to 9:30 AM': a range is matched, nothing
\* is emitted
C22_Witness ==
    /\ Parsed("FreeText")
    /\ file.data.scrape_time.ok
    /\ file.data.fallback_data.div1_text = Str(txt_cloudy)
    /\ file.data.fallback_data.div2_text = Str(txt_hail)
    /\ Len(FileRanges) = 1
    /\ FileRanges[1].hasEnd
    /\ ~result.raised
    /\ result.recs = << >>

(***************************************************************************)
(* C23: an HourlyList artifact written by a scraper holds between 1 and 6  *)
(* entries: the labels, in page order, of those among the first 6 list     *)
(* items (elements with role listitem and an aria-label attribute) whose   *)
(* label is not empty; when the hourly container is reached and none of    *)
(* its first 6 items has a label, the artifact is Empty, not HourlyList.   *)
(***************************************************************************)
\* the places, among the first 6, of the items that have a label
LabelledPlaces(items) == {i \in 1..Len(items) : i <= 6 /\ items[i] # << >>}

\* the k-th of these places
KthPlace(items, k) ==
    CHOOSE i \in LabelledPlaces(items) :
        Cardinality({j \in LabelledPlaces(items) : j <= i}) = k

\* the probes before the hourly one find nothing
HourlyReached(pg) ==
    /\ ~pg.robot
    /\ pg.rects = << >>
    /\ ~(pg.container /\ (~pg.div1.null \/ ~pg.div2.null))

C23_HourlyCap ==
    scrape.fn # "none" =>
        /\ scrape.data.type = "hourly" =>
               /\ scrape.saved
               /\ Len(scrape.data.hourly_data) \in 1..6
               /\ Len(scrape.data.hourly_data) <= Len(page.items)
               /\ Len(scrape.data.hourly_data) = Cardinality(LabelledPlaces(page.items))
               /\ \A k \in 1..Len(scrape.data.hourly_data) :
                      /\ scrape.data.hourly_data[k] # << >>
                      /\ scrape.data.hourly_data[k] = page.items[KthPlace(page.items, k)]
        /\ scrape.data.type # "hourly" => scrape.data.hourly_data = << >>
        /\ HourlyReached(page) /\ page.hourly /\ LabelledPlaces(page.items) # {} =>
               VariantOf(scrape.data) = "HourlyList"
        /\ HourlyReached(page) /\ LabelledPlaces(page.items) = {} =>
               /\ scrape.saved
               /\ VariantOf(scrape.data) = "Empty"
               /\ scrape.data.message

\* a page with 7 labelled items: the artifact holds the first 6 labels
C23_Witness ==
    /\ scrape.fn = "scrape_nowcast_svg"
    /\ HourlyReached(page)
    /\ Len(page.items) = 7
    /\ LabelledPlaces(page.items) = 1..6
    /\ scrape.data.type = "hourly"
    /\ Len(scrape.data.hourly_data) = 6
    /\ scrape.data.hourly_data[6] = lbl_sleet

(***************************************************************************)
(* C24: a file whose parsing raises (bad JSON, a null long block under a   *)
(* keyword, a clock value out of range in a matched range, also after a    *)
(* range that parses) adds no record to the records gathered so far: the   *)
(* turn of the loop that deals with it leaves all_results and the table as *)
(* they are and prints one error line for the file.                        *)
(***************************************************************************)
BadClockTexts == {txt_badhour, txt_badminute, txt_thenbad}

\* the files of the claim, told by their content
ParsingRaises(f) ==
    \/ f.corrupt
    \/ /\ f.data.type = "nowcast"
       /\ f.data.points = << >>
       /\ f.data.fallback_data.present
       /\ f.data.scrape_time.ok
       /\ \/ /\ f.data.fallback_data.div2_text.null
             /\ f.data.fallback_data.div1_text = Str(txt_rain)
          \/ /\ ~f.data.fallback_data.div2_text.null
             /\ f.data.fallback_data.div2_text.s \in BadClockTexts

C24_FileAtomic ==
    [][pc = "loop" /\ idx < Len(json_files) /\ idx' = idx + 1
           /\ ParsingRaises(dir[json_files[idx + 1]])
       => /\ all_results' = all_results
          /\ csv' = csv
          /\ log' = Append(log, Line("Error", json_files[idx + 1], 0))]_vars

\* a file with records, then a file whose second range has minute 61
C24_Witness ==
    /\ pc = "done"
    /\ DOMAIN dir = 1..2
    /\ ~ParsingRaises(dir[1])
    /\ ParsingRaises(dir[2])
    /\ dir[2].data.fallback_data.div2_text.s = txt_thenbad
    /\ all_results # << >>
    /\ all_results = parse_nowcast_data(dir[1], tz_map).recs
    /\ csv.rows = all_results
    /\ \E i \in 1..Len(log) : log[i] = Line("Error", 2, 0)

(***************************************************************************)
(* C25: the extractor and the normalizer agree on the grid of the bar      *)
(* chart: for an artifact as the extractor writes it, the 'time' text of   *)
(* point i (the scrape time moved back to an even minute, plus 2i minutes) *)
(* is the valid_time the normalizer gives the point when no zone is known  *)
(* (the scrape time plus 2i minutes, moved back to an even minute); both   *)
(* are the even minute at or before the scrape time, plus 2i minutes.      *)
(***************************************************************************)
\* the slot of row i on the 2-minute grid, as a formatted UTC time
GridSlot(t, i) == Strftime((t \div (2 * Minute)) * (2 * Minute) + i * 2 * Minute)

C25_GridAgreement ==
    /\ Parsed("BarChart")
    /\ file.data.scrape_time.ok
    /\ ExtractorIndexed(file.data)
    /\ NoZone
    => /\ ~result.raised
       /\ Len(result.recs) = Len(file.data.points)
       /\ \A i \in 1..Len(file.data.points) :
              /\ result.recs[i].valid_time = file.data.points[i].time
              /\ file.data.points[i].time = GridSlot(file.data.scrape_time.t, i - 1)

\* scraped at 23:59:10: the slots are 23:58, 00:00 and 00:02 of the next day
C25_Witness ==
    /\ Parsed("BarChart")
    /\ ExtractorIndexed(file.data)
    /\ file.data.city_id \notin DOMAIN tz_map
    /\ file.data.scrape_time.t = At(5, 23, 59, 10)
    /\ Len(file.data.points) = MaxRects
    /\ file.data.points[1].time = [e |-> FALSE, d |-> 5, h |-> 23, m |-> 58]
    /\ file.data.points[2].time = [e |-> FALSE, d |-> 6, h |-> 0, m |-> 0]
    /\ result.recs[1].valid_time = file.data.points[1].time
    /\ result.recs[2].valid_time = file.data.points[2].time

(***************************************************************************)
(* C26: across all the cycles every station is submitted to the scraper    *)
(* exactly once, and when scrape_all_cities_concurrent returns,            *)
(* tracker.completed is the number of stations and every station has an    *)
(* entry in results.  The statement of the claim: violated for             *)
(* tracker.completed when a task ends in an exception, since the wrapper   *)
(* then does not reach tracker.increment().                                *)
(***************************************************************************)
C26_ExactlyOnce ==
    step # "off" =>
        /\ \A f \in StationsOf(cities) : submits[f] <= 1
        /\ step = "done" =>
               /\ \A f \in StationsOf(cities) : submits[f] = 1
               /\ tracker.completed = Len(cities)
               /\ \A f \in StationsOf(cities) : f[1] \in DOMAIN results

(***************************************************************************)
(* C27: the number of futures in futures_dict, and the number of tasks     *)
(* that have been submitted and have not finished, is at most max_workers  *)
(* in every state; after the first batch a task is submitted only when a   *)
(* future has just been taken out of futures_dict.                         *)
(***************************************************************************)
InFlight == {f \in StationsOf(cities) : futures[f].st \in {"running", "scraped"}}

C27_BoundedInFlight ==
    step # "off" =>
        /\ Len(futures_dict) <= max_workers
        /\ Cardinality(InFlight) <= max_workers
        /\ InFlight \subseteq {futures_dict[k] : k \in 1..Len(futures_dict)}
        /\ step = "submit" =>
               /\ Len(futures_dict) < max_workers
               /\ completed_in_cycle # << >>

\* two workers, three stations: the third is submitted after a collection
C27_Witness ==
    /\ step = "collect"
    /\ max_workers = 2
    /\ city_index = 3
    /\ Len(completed_in_cycle) = 1
    /\ Len(futures_dict) = 2
    /\ Cardinality(InFlight) = 2

(***************************************************************************)
(* C28: when the check after a collection finds the work window over, the  *)
(* loop is left and no task is submitted in the rest of the cycle; a rest  *)
(* is taken only when every submitted task has finished and stations are   *)
(* left in the queue, so no rest follows the last cycle.                   *)
(***************************************************************************)
C28_WindowAndRest ==
    [][/\ step = "window" /\ now >= window_end /\ step' # step
              => step' = "shutdown" /\ window_closed'
       /\ window_closed => submits' = submits
       /\ rests' # rests
              => /\ rests' = rests + 1
                 /\ now' = now + rest_duration
                 /\ \A f \in StationsOf(cities) : futures[f].st \in {"none", "done"}
                 /\ pending_cities # << >>
                 /\ pending_cities' = pending_cities
       /\ step' = "done"
              => /\ pending_cities' = << >>
                 /\ rests' = cycle_num' - 1]_vars

\* a cycle whose window was found over has ended with stations left, and
\* the rest has been taken
C28_Witness ==
    /\ step = "cycle"
    /\ window_closed
    /\ rests = 1
    /\ cycle_num = 2
    /\ pending_cities # << >>
    /\ Len(pending_cities) < Len(cities)
    /\ \A f \in StationsOf(cities) : futures[f].st \in {"none", "done"}

(***************************************************************************)
(* C29: when every task comes to its end and the main thread goes on, each *)
(* cycle takes at least one station out of the queue, also when its window *)
(* is over from the start, there are at most as many cycles as stations,   *)
(* and scrape_all_cities_concurrent returns.                               *)
(***************************************************************************)
C29_Terminates ==
    /\ <>(step = "done")
    /\ [](step # "off" => cycle_num = 1 \/ cycle_num <= Len(cities))
    /\ [][step = "remove" /\ step' # step
              => Len(pending_cities') < Len(pending_cities)]_vars

\* three stations, one worker, a window of length 0: three cycles
C29_Witness ==
    /\ step = "done"
    /\ work_duration = 0
    /\ max_workers = 1
    /\ Len(cities) = 3
    /\ cycle_num = 3
    /\ rests = 2
    /\ pending_cities = << >>

(***************************************************************************)
(* C30: for every total_stations >= 1, duration_hours and avg_scrape_time, *)
(* generate_random_schedule returns a list of total_stations delays, each  *)
(* at least 0, also in the branch that warns.  The statement of the claim: *)
(* violated in the branch that warns, where random.randint is handed an    *)
(* empty range and raises.                                                 *)
(***************************************************************************)
C30_ScheduleLength ==
    /\ sched_pc # "raised"
    /\ sched_pc = "returned" =>
           /\ Len(schedule) = total_stations
           /\ \A i \in 1..Len(schedule) : schedule[i] >= 0

====
